---- MODULE Spec2Model ----
(***************************************************************************)
(* Editor state store of freya-editor: the panel/tab tree owned by         *)
(* EditorManager, the RefCell-guarded shared handle around it              *)
(* (EditorManagerInner / EditorManagerInnerGuard) and the registry of      *)
(* subscribed observers that a guard notifies when it is dropped; the      *)
(* editing surface of one text editor (cursor sync with the layout engine, *)
(* the keypress pipeline, the keydown handler of the editor tab); the      *)
(* language server sessions registered in the store; the hover requests of *)
(* an editor tab, the mounting of editor tabs, and the file explorer.      *)
(*                                                                         *)
(* Indices (focused_panel, active_tab, panel and editor arguments) are     *)
(* 0-based as in the Rust code; TLA+ sequences are 1-based, so element i   *)
(* of a Vec v is v[i + 1].  Option<T> is a sequence of length 0 or 1.      *)
(***************************************************************************)
EXTENDS Integers, Sequences, FiniteSets

\* ---------------------------------------------------------------- bounds
\* most panels the model lets push_panel build
MaxPanels == 2
\* most tabs, summed over all panels, the model lets push_tab build
MaxTabs == 3
\* observer scopes besides the root scope are 1..MaxScopes
MaxScopes == 2
\* most clicks waiting in the click channel
MaxClicks == 1
\* most keydown events the model lets the editor tab take
MaxKeyDowns == 2
\* most responses of the layout engine waiting in the cursor channel
MaxResponses == 1
\* the tasks that call get_or_insert_lsp are 1..MaxTasks
MaxTasks == 2
\* most mouseover events the model lets the lines of the editor tab take
MaxMouseOvers == 2
\* most times the model lets an editor tab be mounted
MaxMounts == 3
\* most entries of a directory listing
MaxEntries == 3
\* most tasks the model lets the file explorer take
MaxTreeTasks == 2
\* most live handles of one observer on the store
MaxHandles == 2

\* ---------------------------------------------------------------- values
None == <<>>

Some(x) == <<x>>

\* file paths of the text editor tabs
Paths == {"/a.rs", "/b.rs"}

\* PanelTab::Config
Config == [kind |-> "Config"]

\* PanelTab::TextEditor(EditorData): the editor of the file at path
TextEditor(path) == [kind |-> "TextEditor", path |-> path]

PanelTabs == {Config} \cup {TextEditor(p) : p \in Paths}

\* PanelTab::get_data: the id field, the identity key of a tab (the title
\* and edited fields play no part in the store)
get_data(tab) ==
    IF tab.kind = "Config"
    THEN [id |-> "config"]
    ELSE [id |-> tab.path]

\* Panel::new / Panel::default
NewPanel == [active_tab |-> None, tabs |-> <<>>]

\* SubscriptionModel::All
All == [tag |-> "All"]

\* SubscriptionModel::new_tab
new_tab(panel, editor) ==
    [tag |-> "Tab", panel_index |-> panel, editor_index |-> editor]

\* the scope of the component that creates the store (Body)
RootScope == 0

Scopes == 0..MaxScopes

\* the (panel, editor) coordinates observers subscribe to
TabCoordinates == {<<0, 0>>, <<0, 1>>, <<1, 0>>}

SubscriptionModels ==
    {All} \cup {new_tab(c[1], c[2]) : c \in TabCoordinates}

\* Vec::remove(index): the elements after index shift down by one
RemoveAt(v, index) ==
    [k \in 1..(Len(v) - 1) |-> IF k <= index THEN v[k] ELSE v[k + 1]]

Min(S) == CHOOSE x \in S : \A y \in S : x <= y

\* ------------------------------------------------- EditorManager methods
\* m is an EditorManager value [focused_panel, panels]

\* EditorManager::new
NewManager == [focused_panel |-> 0, panels |-> <<NewPanel>>]

\* the index of the first tab of the panel with the identity key of tab
opened_tab(m, tab, panel) ==
    LET tabs == m.panels[panel + 1].tabs
        hits == {i \in 0..(Len(tabs) - 1) : get_data(tabs[i + 1]).id = get_data(tab).id}
    IN  IF hits = {} THEN None ELSE Some(Min(hits))

\* push_tab without the search for an already open tab
push_tab_always_appends(m, tab, panel, focus) ==
    LET pushed == [m EXCEPT !.panels[panel + 1].tabs = Append(@, tab)]
    IN  IF focus
        THEN [pushed EXCEPT
                !.focused_panel = panel,
                !.panels[panel + 1].active_tab =
                    Some(Len(pushed.panels[panel + 1].tabs) - 1)]
        ELSE pushed

push_tab(m, tab, panel, focus) ==
    LET found == opened_tab(m, tab, panel)
    IN  IF found # None
        THEN IF focus
             THEN [m EXCEPT !.focused_panel = panel,
                            !.panels[panel + 1].active_tab = Some(found[1])]
             ELSE m
        ELSE LET pushed == [m EXCEPT !.panels[panel + 1].tabs = Append(@, tab)]
             IN  IF focus
                 THEN [pushed EXCEPT
                         !.focused_panel = panel,
                         !.panels[panel + 1].active_tab =
                             Some(Len(pushed.panels[panel + 1].tabs) - 1)]
                 ELSE pushed

\* close_editor with the two re-selection branches in the other order
close_editor_prefers_previous(m, panel, editor) ==
    LET p == m.panels[panel + 1]
        prev_editor == editor > 0
        next_editor == editor + 1 < Len(p.tabs)
        new_active ==
            IF p.active_tab # None
            THEN LET active_tab == p.active_tab[1]
                 IN  IF active_tab = editor
                     THEN IF prev_editor THEN Some(editor - 1)
                          ELSE IF next_editor THEN Some(editor)
                          ELSE None
                     ELSE IF active_tab >= editor THEN Some(active_tab - 1)
                     ELSE p.active_tab
            ELSE p.active_tab
    IN  [m EXCEPT !.panels[panel + 1] =
            [active_tab |-> new_active, tabs |-> RemoveAt(p.tabs, editor)]]

\* close_editor without the shift of an active index after the removed one
close_editor_no_shift(m, panel, editor) ==
    LET p == m.panels[panel + 1]
        prev_editor == editor > 0
        next_editor == editor + 1 < Len(p.tabs)
        new_active ==
            IF p.active_tab # None
            THEN LET active_tab == p.active_tab[1]
                 IN  IF active_tab = editor
                     THEN IF next_editor THEN Some(editor)
                          ELSE IF prev_editor THEN Some(editor - 1)
                          ELSE None
                     ELSE p.active_tab
            ELSE p.active_tab
    IN  [m EXCEPT !.panels[panel + 1] =
            [active_tab |-> new_active, tabs |-> RemoveAt(p.tabs, editor)]]

\* close_editor that removes the tab and leaves active_tab as it was
close_editor_keeps_active(m, panel, editor) ==
    LET p == m.panels[panel + 1]
    IN  [m EXCEPT !.panels[panel + 1] =
            [active_tab |-> p.active_tab, tabs |-> RemoveAt(p.tabs, editor)]]

close_editor(m, panel, editor) ==
    LET p == m.panels[panel + 1]
        prev_editor == editor > 0
        next_editor == editor + 1 < Len(p.tabs)
        new_active ==
            IF p.active_tab # None
            THEN LET active_tab == p.active_tab[1]
                 IN  IF active_tab = editor
                     THEN IF next_editor THEN Some(editor)
                          ELSE IF prev_editor THEN Some(editor - 1)
                          ELSE None
                     ELSE IF active_tab >= editor THEN Some(active_tab - 1)
                     ELSE p.active_tab
            ELSE p.active_tab
    IN  [m EXCEPT !.panels[panel + 1] =
            [active_tab |-> new_active, tabs |-> RemoveAt(p.tabs, editor)]]

push_panel(m, panel) == [m EXCEPT !.panels = Append(@, panel)]

set_focused_panel(m, panel) == [m EXCEPT !.focused_panel = panel]

\* Panel::set_active_tab through EditorManager::panel_mut
set_active_tab(m, panel, active_tab) ==
    [m EXCEPT !.panels[panel + 1].active_tab = Some(active_tab)]

\* close_panel without the test on the number of panels
close_panel_unchecked(m, panel) ==
    [focused_panel |-> IF m.focused_panel > 0
                       THEN m.focused_panel - 1
                       ELSE m.focused_panel,
     panels |-> RemoveAt(m.panels, panel)]

\* close_panel without the adjustment of focused_panel
close_panel_keeps_focus(m, panel) ==
    IF Len(m.panels) > 1
    THEN [focused_panel |-> m.focused_panel,
          panels |-> RemoveAt(m.panels, panel)]
    ELSE m

close_panel(m, panel) ==
    IF Len(m.panels) > 1
    THEN [focused_panel |-> IF m.focused_panel > 0
                            THEN m.focused_panel - 1
                            ELSE m.focused_panel,
          panels |-> RemoveAt(m.panels, panel)]
    ELSE m

\* ------------------------------------------------------------ the rope
\* A Rope is the sequence of its chars; a line ends with its line break.

\* the 1-based positions of the line breaks
LineBreaks(rope) == {i \in 1..Len(rope) : rope[i] = "\n"}

\* Rope::len_lines
len_lines(rope) == Cardinality(LineBreaks(rope)) + 1

\* Rope::line_to_char for line_idx <= len_lines: the char index of the
\* start of the line, the length of the rope for the line past the end
line_to_char(rope, line_idx) ==
    IF line_idx = 0 THEN 0
    ELSE IF line_idx >= len_lines(rope) THEN Len(rope)
    ELSE CHOOSE i \in LineBreaks(rope) :
             Cardinality({j \in LineBreaks(rope) : j <= i}) = line_idx

\* Rope::line(line_idx).chars().len() for line_idx < len_lines: the chars
\* of the line, its line break included
line_chars_len(rope, line_idx) ==
    line_to_char(rope, line_idx + 1) - line_to_char(rope, line_idx)

\* Rope::insert_char
insert_char(rope, char_idx, char) ==
    SubSeq(rope, 1, char_idx) \o <<char>> \o SubSeq(rope, char_idx + 1, Len(rope))

\* TextCursor::new
TextCursor(row, col) == [row |-> row, col |-> col]

\* TextCursor::as_tuple
as_tuple(cursor) == <<cursor.col, cursor.row>>

\* EditorData::new
EditorData(rope, rowcol) == [rope |-> rope, cursor |-> TextCursor(rowcol[1], rowcol[2])]

\* a buffer of two lines
ShortRope == <<"a", "b", "\n", "c">>

\* a buffer of six lines
InitialRope == <<"a", "b", "\n", "c", "\n", "\n", "\n", "\n">>

\* ------------------------------------------------- the editing surface
\* an editor value is [rope, cursor]

\* the cursor the response listener of use_edit computes from a response of
\* the layout engine: the column, or the length of the line when the column
\* surpasses it
new_cursor(editor, new_cursor_col, new_cursor_row) ==
    LET new_current_line_len == line_chars_len(editor.rope, new_cursor_row)
    IN  IF new_cursor_col >= new_current_line_len
        THEN <<new_current_line_len, new_cursor_row>>
        ELSE <<new_cursor_col, new_cursor_row>>

\* a receiver that hands out the newest message
recv_newest(channel) ==
    [msg |-> channel[Len(channel)], rest |-> SubSeq(channel, 1, Len(channel) - 1)]

\* UnboundedReceiver::recv on a channel that holds a message: the oldest
\* message, and the channel without it
recv(channel) == [msg |-> Head(channel), rest |-> Tail(channel)]

\* a listener that signals after every key
signals_always(event) == TRUE

\* the keypress listener's test on the TextEvent of process_key: it sends
\* on highlight_trigger
signals(event) == event = "TextChanged"

\* a take that leaves the value in place
take_nothing(slot) == slot

\* Option::take on the positions of the cursor reference: what it leaves
take(slot) == None

\* KeyboardData: the key and the modifiers held with it
ALT == "ALT"

CONTROL == "CONTROL"

\* the keys of the keydown events: the two arrows the editor tab repeats,
\* and a key it sends once
Keys == {"ArrowUp", "ArrowDown", "Enter"}

KeyboardData == [key : Keys, modifiers : SUBSET {ALT, CONTROL}]

\* TextEditor::process_key on an editor value: the edit or movement the key
\* stands for and its classification.  The rope operations panic on a char
\* or line index past the end.
process_key(editor, key) ==
    LET rope == editor.rope
        row == editor.cursor.row
        col == editor.cursor.col
        char_idx == line_to_char(rope, row) + col
        moved(r, c) == [rope |-> rope, cursor |-> TextCursor(r, c),
                        event |-> "CursorMoved", panic |-> FALSE]
        changed(rp, r, c) == [rope |-> rp, cursor |-> TextCursor(r, c),
                              event |-> "TextChanged", panic |-> FALSE]
        panic == [rope |-> rope, cursor |-> editor.cursor,
                  event |-> "CursorMoved", panic |-> TRUE]
    IN  CASE key = "ArrowDown" ->
                IF row + 1 < len_lines(rope)
                THEN LET next_len == line_chars_len(rope, row + 1)
                     IN  moved(row + 1, IF col <= next_len THEN col ELSE next_len)
                ELSE moved(row, col)
          [] key = "ArrowUp" ->
                IF row > 0
                THEN IF row - 1 >= len_lines(rope)
                     THEN panic
                     ELSE LET prev_len == line_chars_len(rope, row - 1)
                          IN  moved(row - 1, IF col <= prev_len THEN col ELSE prev_len)
                ELSE moved(row, col)
          [] key = "Backspace" ->
                IF row > len_lines(rope) \/ char_idx > Len(rope)
                THEN panic
                ELSE IF col > 0
                THEN changed(RemoveAt(rope, char_idx - 1), row, col - 1)
                ELSE IF row > 0
                THEN changed(RemoveAt(rope, char_idx - 1), row - 1,
                             line_chars_len(rope, row - 1) - 1)
                ELSE moved(row, col)
          [] key = "Enter" ->
                IF row > len_lines(rope) \/ char_idx > Len(rope)
                THEN panic
                ELSE changed(insert_char(rope, char_idx, "\n"), row + 1, 0)
          [] OTHER ->
                IF row > len_lines(rope) \/ char_idx > Len(rope)
                THEN panic
                ELSE changed(insert_char(rope, char_idx, key), row, col + 1)

\* ------------------------------------------- the editor tab's onkeydown
LINES_JUMP_ALT == 5

LINES_JUMP_CONTROL == 3

\* EditorManager::new: font_size 17.0
font_size == 17

\* (font_size * line_height).floor() with line_height 1.2 = 12 / 10
manual_line_height == (font_size * 12) \div 10

\* i32::clamp
clamp(x, min, max) == IF x < min THEN min ELSE IF x > max THEN max ELSE x

EditableKeyDown(data) == [tag |-> "KeyDown", data |-> data]

\* the match of onkeydown with an arm for every key that gives one event
events_single(e) == <<EditableKeyDown(e)>>

\* the events the match of onkeydown builds for the keyboard event e
events(e) ==
    IF e.key = "ArrowUp" /\ ALT \in e.modifiers
    THEN [k \in 1..LINES_JUMP_ALT |-> EditableKeyDown(e)]
    ELSE IF e.key = "ArrowDown" /\ ALT \in e.modifiers
    THEN [k \in 1..LINES_JUMP_ALT |-> EditableKeyDown(e)]
    ELSE IF e.key \in {"ArrowDown", "ArrowUp"} /\ CONTROL \in e.modifiers
    THEN [k \in 1..LINES_JUMP_CONTROL |-> EditableKeyDown(e)]
    ELSE <<EditableKeyDown(e)>>

\* the match of onkeydown scrolling on every arrow key
jump_any_arrow(e, current_scroll, lines) ==
    LET lines_jump == manual_line_height * LINES_JUMP_ALT
        min_height == -(lines * manual_line_height)
        max_height == 0
    IN  IF e.key = "ArrowUp"
        THEN clamp(current_scroll + lines_jump, min_height, max_height)
        ELSE IF e.key = "ArrowDown"
        THEN clamp(current_scroll - lines_jump, min_height, max_height)
        ELSE current_scroll

\* scroll_offsets.1 after the match of onkeydown for the keyboard event e,
\* with lines the number of lines of the metrics
jump(e, current_scroll, lines) ==
    LET lines_jump == manual_line_height * LINES_JUMP_ALT
        min_height == -(lines * manual_line_height)
        max_height == 0
    IN  IF e.key = "ArrowUp" /\ ALT \in e.modifiers
        THEN clamp(current_scroll + lines_jump, min_height, max_height)
        ELSE IF e.key = "ArrowDown" /\ ALT \in e.modifiers
        THEN clamp(current_scroll - lines_jump, min_height, max_height)
        ELSE current_scroll

\* ---------------------------------------------- language server sessions
\* HashMap<String, LSPBridge> as a function on the keys it holds; a bridge
\* is the session it talks to, and its clones share the indexed flag

\* the LSPBridge create_lsp returns for the session it started as the
\* n-th: its socket and its indexed flag; a clone is the same value
LSPBridge(n) == [server_socket |-> n, indexed |-> n]

\* LspConfig.language_server of the editors' configurations
LanguageServers == {"rust-analyzer", "pylsp"}

\* EditorManager::lsp(..).cloned()
lsp(language_servers, language_server) ==
    IF language_server \in DOMAIN language_servers
    THEN Some(language_servers[language_server])
    ELSE None

\* insert_lsp that registers nothing
insert_lsp_dropped(language_servers, language_server, server) == language_servers

\* EditorManager::insert_lsp
insert_lsp(language_servers, language_server, server) ==
    [k \in DOMAIN language_servers \cup {language_server} |->
        IF k = language_server THEN server ELSE language_servers[k]]

\* ------------------------------------------------------- the shared handle
\* EditorManagerInner::global_write: the guard it builds
global_write(subs, scope) == [model |-> All, via |-> "global_write", scope |-> scope]

\* write that builds the guard global_write builds
write_as_global(subs, scope) == [model |-> All, via |-> "write", scope |-> scope]

\* EditorManagerInner::write: the guard carries the registered model of the
\* calling scope (unwrap: the scope is registered)
write(subs, scope) == [model |-> subs[scope], via |-> "write", scope |-> scope]

\* RefCell::borrow on EditorManagerInner.value succeeds while no RefMut of
\* the value is alive
borrow(gs) == \A k \in 1..Len(gs) : gs[k].via = "current"

\* a borrow that is granted whatever is alive
borrow_mut_unchecked(gs) == TRUE

\* RefCell::borrow_mut on EditorManagerInner.value succeeds only while no
\* other borrow of the value is alive; otherwise it panics
borrow_mut(gs) == gs = <<>>

\* Drop for EditorManagerInnerGuard: the scopes handed to the scheduler
drop(g, subs) == {scope_id \in DOMAIN subs : subs[scope_id] = g.model}

\* ------------------------------------------------------------------ state
VARIABLES
    focused_panel,   \* EditorManager.focused_panel
    panels,          \* EditorManager.panels
    subscribers,     \* EditorManagerInner.subscribers: ScopeId -> SubscriptionModel
    guards,          \* the live borrows of EditorManagerInner.value
    scheduled,       \* the scopes the last dropped guard handed to the scheduler
    panicked,        \* the process has panicked
    last,            \* the last call made on the store, with the value it found
    focused_view,            \* EditorManager.focused_view
    previous_focused_view,   \* EditorManager.previous_focused_view
    rope,            \* the rope of the editor the surface shows
    cursor,          \* the cursor of the editor the surface shows
    captured,        \* the editor value the response listener's handle derefs to
    click_channel,   \* use_edit click_channel: the clicks sent, not yet received
    click_pending,   \* the click listener between its two writes: the points to publish
    positions,       \* CursorReference.positions
    id,              \* CursorReference.id
    cursor_channel,  \* use_edit cursor_channels: the responses sent, not yet received
    keypress_channel,   \* use_edit keypress_channel: the keys sent, not yet received
    highlight_signals,  \* the sends made on highlight_trigger
    sent,            \* every key sent on keypress_channel, in the order of the sends
    applied,         \* every key the keypress listener has applied, with its TextEvent
    scroll_offsets,  \* the editor tab's scroll_offsets (x, y)
    metrics_len,     \* metrics.0.len(): the lines of the parsed syntax blocks
    keydowns,        \* the keydown events taken so far
    language_servers,   \* EditorManager.language_servers
    tasks,           \* the tasks spawned to call get_or_insert_lsp
    started,         \* the language server sessions create_lsp has started, by key
    hover_location,  \* CodeEditorTab hover_location: the line hovered and its result
    lsp_channel,     \* the LspActions sent to lsp_coroutine, not yet received
    lsp_task,        \* lsp_coroutine: waiting for an action, or for a hover response
    debouncer,       \* the action the debouncer holds until its delay has elapsed
    cursor_coords,   \* CodeEditorTab cursor_coords: the x of the last mouseover
    pointer,         \* the line the pointer is over and its x, if it is over a line
    trigger,         \* the line and x of the last mouseover that called the debouncer
    indexed,         \* the sessions whose indexed flag is true
    requests,        \* the hover requests sent to the language server
    withheld,        \* the hover actions lsp_coroutine dropped, with the notice printed
    mouseovers,      \* the mouseover events taken so far
    mounted,         \* per panel, the key of the CodeEditorTab that is mounted
    spawned,         \* per task, the file the mount hook spawned it for
    did_opens,       \* the file uris of the did_open notifications sent
    mounts,          \* the mounts of an editor tab so far
    handles,         \* manager.rs: the subscribers set; per mounted observer, its live handles
    listening,       \* per panel, the indices the listeners of its mounted surface captured
    editors,         \* per panel, the EditorData of each text tab, by the tab's key
    tree_channel,    \* the TreeTasks sent to the file explorer's coroutine
    tree_task,       \* the file explorer's coroutine: waiting for a task, or reading
    focused_item,    \* FileExplorer focused_item
    app_writes,      \* the write guards the explorer's coroutine took, by its tasks
    entries,         \* the entries the transport returns for the directory read
    items,           \* what read_folder_as_items returned for them
    tree_tasks       \* the tasks sent to the file explorer so far

viewVars == <<focused_view, previous_focused_view>>

syncVars == <<captured, click_channel, click_pending, positions, id, cursor_channel>>

keyVars == <<keypress_channel, highlight_signals, sent, applied, scroll_offsets,
             metrics_len, keydowns>>

editVars == <<rope, cursor>>

lspVars == <<language_servers, tasks, started>>

hoverVars == <<hover_location, lsp_channel, lsp_task, debouncer, cursor_coords,
               pointer, trigger, indexed, requests, withheld, mouseovers>>

mountVars == <<mounted, spawned, did_opens, mounts, handles, listening, editors>>

treeVars == <<tree_channel, tree_task, focused_item, app_writes, entries, items,
              tree_tasks>>

vars == <<focused_panel, panels, subscribers, guards, scheduled, panicked, last,
          viewVars, editVars, syncVars, keyVars, lspVars, hoverVars, mountVars,
          treeVars>>

manager == [focused_panel |-> focused_panel, panels |-> panels]

TotalTabs(ps) ==
    LET RECURSIVE Sum(_)
        Sum(k) == IF k = 0 THEN 0 ELSE Len(ps[k].tabs) + Sum(k - 1)
    IN  Sum(Len(ps))

PanelIndices == 0..(Len(panels) - 1)

TabIndices(panel) == 0..(Len(panels[panel + 1].tabs) - 1)

Tasks == 1..MaxTasks

\* the props of the CodeEditorTab whose editing surface is modelled
panel_index == 0

editor_index == 0

\* a spawned task that has not called get_or_insert_lsp yet
IdleTask == [pc |-> "idle"]

\* the hooks of a CodeEditorTab besides its editing surface, the tasks of
\* the mount hooks and the file explorer, as the first render builds them
NewHooks ==
    /\ hover_location = None
    /\ lsp_channel = <<>>
    /\ lsp_task = [pc |-> "idle"]
    /\ debouncer = None
    /\ cursor_coords = 0
    /\ pointer = None
    /\ trigger = None
    /\ indexed = {}
    /\ requests = <<>>
    /\ withheld = <<>>
    /\ mouseovers = 0
    /\ mounted = <<>>
    /\ spawned = [t \in Tasks |-> None]
    /\ did_opens = <<>>
    /\ mounts = 0
    /\ handles = [subscribers |-> {RootScope}, refs |-> <<>>]
    /\ listening = <<>>
    /\ editors = <<>>
    /\ tree_channel = <<>>
    /\ tree_task = [pc |-> "idle"]
    /\ focused_item = 0
    /\ app_writes = <<>>
    /\ entries = <<>>
    /\ items = None
    /\ tree_tasks = 0

\* the editing surface of an editor opened on the rope r, as use_edit
\* builds it: empty channels, an empty CursorReference, and the listener's
\* handle on the editor value of that moment
NewSurface(r) ==
    /\ rope = r
    /\ cursor = TextCursor(0, 0)
    /\ captured = EditorData(r, <<0, 0>>)
    /\ click_channel = <<>>
    /\ click_pending = None
    /\ positions = None
    /\ id = None
    /\ cursor_channel = <<>>
    /\ keypress_channel = <<>>
    /\ highlight_signals = 0
    /\ sent = <<>>
    /\ applied = <<>>
    /\ scroll_offsets = <<0, 0>>
    /\ metrics_len = len_lines(r)
    /\ keydowns = 0
    /\ NewHooks

\* use_init_manager: EditorManager::new wrapped by EditorManagerInner::new,
\* with the panels ps
NewStore(ps) ==
    /\ focused_panel = NewManager.focused_panel
    /\ panels = ps
    /\ focused_view = "CodeEditor"
    /\ previous_focused_view = None
    /\ language_servers = <<>>
    /\ subscribers = [s \in {RootScope} |-> All]
    /\ guards = <<>>
    /\ scheduled = {}
    /\ panicked = FALSE
    /\ last = [op |-> "new"]
    /\ tasks = [t \in Tasks |-> IdleTask]
    /\ started = <<>>

\* the store after construction; no editor is open
Init ==
    /\ NewStore(NewManager.panels)
    /\ NewSurface(<<>>)

\* A handler statement `manager.global_write().f(..)` or a block that takes a
\* guard g, mutates through it and lets it go out of scope: borrow_mut
\* succeeds only while no other guard is alive, the store becomes m and the
\* guard's drop notifies.
Mutate(g, m, call) ==
    /\ ~panicked
    /\ borrow_mut(guards)
    /\ focused_panel' = m.focused_panel
    /\ panels' = m.panels
    /\ scheduled' = drop(g, subscribers)
    /\ last' = call
    /\ UNCHANGED <<hoverVars, mountVars, treeVars, subscribers, guards, panicked, viewVars, editVars, syncVars, keyVars, lspVars>>

\* components/sidebar.rs open_settings and any other caller of push_tab
PushTab ==
    \E scope \in DOMAIN subscribers, tab \in PanelTabs, panel \in PanelIndices, focus \in BOOLEAN :
        /\ \/ TotalTabs(panels) < MaxTabs
           \/ opened_tab(manager, tab, panel) # None
        /\ Mutate(global_write(subscribers, scope),
                  push_tab(manager, tab, panel, focus),
                  [op |-> "push_tab", tab |-> tab, panel |-> panel, focus |-> focus,
                   pre |-> manager])

\* main.rs onclickclose of a rendered tab
CloseEditor ==
    \E panel \in PanelIndices :
        \E i \in TabIndices(panel) :
            Mutate(global_write(subscribers, RootScope),
                   close_editor(manager, panel, i),
                   [op |-> "close_editor", panel |-> panel, editor |-> i,
                    pre |-> manager])

\* main.rs onclick of a rendered tab
TabClick ==
    \E panel \in PanelIndices :
        \E i \in TabIndices(panel) :
            Mutate(global_write(subscribers, RootScope),
                   set_active_tab(set_focused_panel(manager, panel), panel, i),
                   [op |-> "tab_click", panel |-> panel, editor |-> i])

\* main.rs close_panel of a rendered panel
ClosePanel ==
    \E panel \in PanelIndices :
        Mutate(global_write(subscribers, RootScope),
               close_panel(manager, panel),
               [op |-> "close_panel", panel |-> panel, pre |-> manager])

\* main.rs split_panel: the length is read before the guard is taken
SplitPanel ==
    /\ Len(panels) < MaxPanels
    /\ LET len_panels == Len(panels)
       IN  Mutate(global_write(subscribers, RootScope),
                  set_focused_panel(push_panel(manager, NewPanel), len_panels - 1),
                  [op |-> "split_panel", pre |-> manager])

\* main.rs onclickpanel of a rendered panel
PanelClick ==
    \E panel \in PanelIndices :
        Mutate(global_write(subscribers, RootScope),
               set_focused_panel(manager, panel),
               [op |-> "panel_click", panel |-> panel])

\* tabs/code_editor.rs mount hook of the CodeEditorTab that main.rs renders
\* for the active tab of a panel when that tab is a text editor: a scoped
\* write by the mounting component
EditorMount ==
    \E scope \in DOMAIN subscribers, panel \in PanelIndices :
        /\ panels[panel + 1].active_tab # None
        /\ LET editor == panels[panel + 1].active_tab[1]
           IN  /\ editor \in TabIndices(panel)
               /\ panels[panel + 1].tabs[editor + 1].kind = "TextEditor"
               /\ Mutate(write(subscribers, scope),
                         set_active_tab(set_focused_panel(manager, panel), panel, editor),
                         [op |-> "editor_mount", panel |-> panel, editor |-> editor,
                          scope |-> scope])

NextStore ==
    \/ PushTab
    \/ CloseEditor
    \/ TabClick
    \/ ClosePanel
    \/ SplitPanel
    \/ PanelClick
    \/ EditorMount

\* the panel/tab tree under its handlers, observed by the root scope
SpecStore == Init /\ [][NextStore]_vars

\* ------------------------------------------ observers and guard lifetimes
\* use_manager on the first render of a component: UseManager::new registers
\* the component's scope with its model.  Components render between event
\* handlers, never while a handler holds a guard.
Subscribe ==
    \E scope \in Scopes \ DOMAIN subscribers, model \in SubscriptionModels :
        /\ ~panicked
        /\ guards = <<>>
        /\ subscribers' = [s \in DOMAIN subscribers \cup {scope} |->
                              IF s = scope THEN model ELSE subscribers[s]]
        /\ last' = [op |-> "subscribe", scope |-> scope]
        /\ UNCHANGED <<hoverVars, mountVars, treeVars, focused_panel, panels, guards, scheduled, panicked, viewVars,
                       editVars, syncVars, keyVars, lspVars>>

\* use_manager on a later render: UseManager::update_model_if_necessary
UpdateModel ==
    \E scope \in DOMAIN subscribers \ {RootScope}, model \in SubscriptionModels :
        /\ ~panicked
        /\ guards = <<>>
        /\ subscribers[scope] # model
        /\ subscribers' = [subscribers EXCEPT ![scope] = model]
        /\ last' = [op |-> "update_model", scope |-> scope]
        /\ UNCHANGED <<hoverVars, mountVars, treeVars, focused_panel, panels, guards, scheduled, panicked, viewVars,
                       editVars, syncVars, keyVars, lspVars>>

\* Drop for EditorManagerInner when a component is torn down
Unsubscribe ==
    \E scope \in DOMAIN subscribers \ {RootScope} :
        /\ ~panicked
        /\ guards = <<>>
        /\ subscribers' = [s \in DOMAIN subscribers \ {scope} |-> subscribers[s]]
        /\ last' = [op |-> "unsubscribe", scope |-> scope]
        /\ UNCHANGED <<hoverVars, mountVars, treeVars, focused_panel, panels, guards, scheduled, panicked, viewVars,
                       editVars, syncVars, keyVars, lspVars>>

\* A call of global_write or write that keeps the guard g it gets in a
\* local: the borrow is granted and the guard is alive afterwards, or the
\* borrow panics.
Acquire(g, scope) ==
    /\ ~panicked
    /\ guards' = IF borrow_mut(guards) THEN Append(guards, g) ELSE guards
    /\ panicked' = ~borrow_mut(guards)
    /\ last' = [op |-> g.via, scope |-> scope, held |-> guards, pre |-> manager]
    /\ UNCHANGED <<hoverVars, mountVars, treeVars, focused_panel, panels, subscribers, scheduled, viewVars, editVars,
                   syncVars, keyVars, lspVars>>

\* UseManager::global_write by the handle of a registered scope
GlobalWrite ==
    \E scope \in DOMAIN subscribers :
        Acquire(global_write(subscribers, scope), scope)

\* UseManager::write by the handle of a registered scope
Write ==
    \E scope \in DOMAIN subscribers :
        Acquire(write(subscribers, scope), scope)

\* a mutator of EditorManager reached through DerefMut of the live guard
Guarded(m, call) ==
    /\ ~panicked
    /\ guards # <<>>
    /\ focused_panel' = m.focused_panel
    /\ panels' = m.panels
    /\ last' = call
    /\ UNCHANGED <<hoverVars, mountVars, treeVars, subscribers, guards, scheduled, panicked, viewVars, editVars,
                   syncVars, keyVars, lspVars>>

GuardedPushPanel ==
    /\ Len(panels) < MaxPanels
    /\ Guarded(push_panel(manager, NewPanel), [op |-> "push_panel"])

GuardedClosePanel ==
    \E panel \in PanelIndices :
        Guarded(close_panel(manager, panel),
                [op |-> "close_panel", panel |-> panel, pre |-> manager])

GuardedSetFocusedPanel ==
    \E panel \in PanelIndices :
        /\ panel # focused_panel
        /\ Guarded(set_focused_panel(manager, panel),
                   [op |-> "set_focused_panel", panel |-> panel])

\* the live guard goes out of scope: Drop for EditorManagerInnerGuard, then
\* the RefMut is released
DropGuard ==
    /\ ~panicked
    /\ guards # <<>>
    /\ scheduled' = drop(guards[Len(guards)], subscribers)
    /\ guards' = SubSeq(guards, 1, Len(guards) - 1)
    /\ last' = [op |-> "drop", guard |-> guards[Len(guards)]]
    /\ UNCHANGED <<hoverVars, mountVars, treeVars, focused_panel, panels, subscribers, panicked, viewVars, editVars,
                   syncVars, keyVars, lspVars>>

NextSubs ==
    \/ Subscribe
    \/ UpdateModel
    \/ Unsubscribe
    \/ GlobalWrite
    \/ Write
    \/ GuardedPushPanel
    \/ GuardedClosePanel
    \/ GuardedSetFocusedPanel
    \/ DropGuard

\* observers coming and going around guards that are taken, used and dropped
SpecSubs == Init /\ [][NextSubs]_vars

\* the store after two splits and a tab opened in each of the three panels,
\* the first panel focused
InitPanels ==
    /\ NewStore(<<[active_tab |-> Some(0), tabs |-> <<TextEditor("/a.rs")>>],
                  [active_tab |-> Some(0), tabs |-> <<TextEditor("/b.rs")>>],
                  [active_tab |-> Some(0), tabs |-> <<Config>>]>>)
    /\ NewSurface(<<>>)

\* the handlers of the store on three panels and fewer
SpecPanels == InitPanels /\ [][NextStore]_vars

\* ---------------------------------------------------------------- observers
\* The two stores of the repository keep a registry each: hooks/use_manager.rs
\* the map `subscribers`, manager.rs the set handles.subscribers.  A mounted
\* observer appears in handles.refs with the use_manager it calls and the
\* number of handles on the store it keeps alive between renders.

Observers == DOMAIN handles.refs

\* a render of the component scope.  hooks/use_manager.rs: the first render
\* runs the hook, UseManager::new registers the scope and the hook keeps the
\* Rc.  manager.rs: every render calls EditorManagerWrapper::new, which
\* inserts the scope; the first render moves a clone into the task of the
\* mount hook; the wrapper returned is a local of the render and is dropped
\* when the render returns, and Drop removes the scope.
ObserverRender ==
    \E scope \in Scopes \ {RootScope}, via \in {"hooks", "manager"} :
        /\ ~panicked
        /\ guards = <<>>
        /\ IF scope \in Observers THEN handles.refs[scope].via = via
                                  ELSE scope \notin DOMAIN subscribers
        /\ via = "hooks" => scope \notin Observers
        /\ LET refs == [s \in Observers \cup {scope} |->
                           IF s \in Observers THEN handles.refs[s]
                                              ELSE [via |-> via, n |-> 1]]
           IN  IF via = "hooks"
               THEN /\ \E model \in SubscriptionModels :
                           subscribers' = [s \in DOMAIN subscribers \cup {scope} |->
                                              IF s = scope THEN model ELSE subscribers[s]]
                    /\ handles' = [handles EXCEPT !.refs = refs]
               ELSE /\ handles' = [subscribers |->
                                       (handles.subscribers \cup {scope}) \ {scope},
                                   refs |-> refs]
                    /\ UNCHANGED subscribers
        /\ last' = [op |-> "render", scope |-> scope, via |-> via]
        /\ UNCHANGED <<focused_panel, panels, guards, scheduled, panicked,
                       mounted, spawned, did_opens, mounts, listening, editors,
                       viewVars, editVars, syncVars, keyVars, lspVars, hoverVars, treeVars>>

\* to_owned![manager]: a closure or a task of a mounted observer takes a
\* clone of its handle
CloneHandle ==
    \E scope \in Observers :
        /\ ~panicked
        /\ handles.refs[scope].n < MaxHandles
        /\ handles' = [handles EXCEPT !.refs[scope].n = @ + 1]
        /\ last' = [op |-> "clone", scope |-> scope]
        /\ UNCHANGED <<focused_panel, panels, subscribers, guards, scheduled, panicked,
                       mounted, spawned, did_opens, mounts, listening, editors,
                       viewVars, editVars, syncVars, keyVars, lspVars, hoverVars, treeVars>>

\* a closure or a task of a mounted observer is dropped, and its clone of the
\* handle with it.  hooks/use_manager.rs: the clone is an Rc, the hook holds
\* another, and Drop for EditorManagerInner does not run.  manager.rs: Drop
\* for EditorManagerWrapper runs for every clone and removes the scope.
DropHandle ==
    \E scope \in Observers :
        LET ref == handles.refs[scope]
        IN  /\ ~panicked
            /\ guards = <<>>
            /\ ref.n > (IF ref.via = "hooks" THEN 1 ELSE 0)
            /\ handles' = [subscribers |-> IF ref.via = "hooks"
                                           THEN handles.subscribers
                                           ELSE handles.subscribers \ {scope},
                           refs |-> [handles.refs EXCEPT ![scope].n = @ - 1]]
            /\ last' = [op |-> "drop_handle", scope |-> scope]
            /\ UNCHANGED <<focused_panel, panels, subscribers, guards, scheduled,
                           panicked, mounted, spawned, did_opens, mounts, listening, editors,
                           viewVars, editVars, syncVars, keyVars, lspVars, hoverVars,
                           treeVars>>

\* a mounted observer is torn down: its hooks, closures and tasks are
\* dropped, with every handle they hold
Teardown ==
    \E scope \in Observers :
        /\ ~panicked
        /\ guards = <<>>
        /\ handles' = [subscribers |-> handles.subscribers \ {scope},
                       refs |-> [s \in Observers \ {scope} |-> handles.refs[s]]]
        /\ subscribers' = IF handles.refs[scope].via = "hooks"
                          THEN [s \in DOMAIN subscribers \ {scope} |-> subscribers[s]]
                          ELSE subscribers
        /\ last' = [op |-> "teardown", scope |-> scope]
        /\ UNCHANGED <<focused_panel, panels, guards, scheduled, panicked,
                       mounted, spawned, did_opens, mounts, listening, editors,
                       viewVars, editVars, syncVars, keyVars, lspVars, hoverVars, treeVars>>

\* a handler of the root component takes global_write on one of the stores
\* and lets the guard go: Drop for EditorManagerInnerGuard, or Drop for
\* EditorManagerWrapperGuard with no scope, which schedules the whole set
GlobalNotify ==
    \E via \in {"hooks", "manager"} :
        /\ ~panicked
        /\ borrow_mut(guards)
        /\ scheduled' = IF via = "hooks"
                        THEN drop(global_write(subscribers, RootScope), subscribers)
                        ELSE handles.subscribers
        /\ last' = [op |-> "notify", via |-> via]
        /\ UNCHANGED <<focused_panel, panels, subscribers, guards, panicked,
                       viewVars, editVars, syncVars, keyVars, lspVars, hoverVars,
                       mountVars, treeVars>>

NextObservers ==
    \/ ObserverRender
    \/ CloneHandle
    \/ DropHandle
    \/ Teardown
    \/ GlobalNotify

\* observers of the two stores mounted, rendered and torn down while their
\* closures and tasks come and go
SpecObservers == Init /\ [][NextObservers]_vars

\* ------------------------------------------------- the editing surface
\* The surface of the CodeEditorTab with the props (panel_index,
\* editor_index): its editor is open and active in the focused panel.
OpenedPanels ==
    <<[active_tab |-> Some(editor_index), tabs |-> <<TextEditor("/a.rs")>>]>>

InitSurface ==
    /\ NewStore(OpenedPanels)
    /\ NewSurface(InitialRope)

\* the keys that add and remove lines, with no modifier
LineKeys == {[key |-> k, modifiers |-> {}] : k \in {"Enter", "Backspace"}}

\* the surface of an editor opened on the short rope, after a keydown whose
\* key the keypress listener has not received yet
InitCursor ==
    /\ NewStore(OpenedPanels)
    /\ rope = ShortRope
    /\ cursor = TextCursor(0, 0)
    /\ captured = EditorData(ShortRope, <<0, 0>>)
    /\ click_channel = <<>>
    /\ click_pending = None
    /\ positions = None
    /\ id = None
    /\ cursor_channel = <<>>
    /\ keypress_channel \in {<<e>> : e \in LineKeys}
    /\ highlight_signals = 0
    /\ sent = keypress_channel
    /\ applied = <<>>
    /\ scroll_offsets = <<0, 0>>
    /\ metrics_len = len_lines(ShortRope)
    /\ keydowns = 1
    /\ NewHooks

\* the columns the layout engine finds under the clicks: the start of a
\* line, and past the end of every line
Columns == {0, 9}

\* the lines the editor tab renders
LineIndices == 0..(len_lines(rope) - 1)

\* tabs/code_editor.rs onmousedown of a rendered line: the click and the
\* index of the line go to the click listener.  x stands for the element
\* coordinates of the click: the column the layout engine finds under them.
MouseDown ==
    \E x \in Columns, line_index \in LineIndices :
        /\ ~panicked
        /\ Len(click_channel) < MaxClicks
        /\ click_channel' = Append(click_channel, [points |-> x, id |-> line_index])
        /\ last' = [op |-> "mousedown"]
        /\ UNCHANGED <<hoverVars, mountVars, treeVars, focused_panel, panels, subscribers, guards, scheduled, panicked,
                       viewVars, editVars, captured, click_pending, positions, id,
                       cursor_channel, keyVars, lspVars>>

\* the click listener of use_edit receives a click and replaces the id of
\* the cursor reference
ClickReceive ==
    /\ ~panicked
    /\ click_pending = None
    /\ click_channel # <<>>
    /\ id' = Some(recv(click_channel).msg.id)
    /\ click_pending' = Some(recv(click_channel).msg.points)
    /\ click_channel' = recv(click_channel).rest
    /\ last' = [op |-> "click_id", pre_id |-> id]
    /\ UNCHANGED <<hoverVars, mountVars, treeVars, focused_panel, panels, subscribers, guards, scheduled, panicked,
                   viewVars, editVars, captured, positions, cursor_channel,
                   keyVars, lspVars>>

\* the click listener replaces the positions of the cursor reference
ClickPublish ==
    /\ ~panicked
    /\ click_pending # None
    /\ positions' = click_pending
    /\ click_pending' = None
    /\ last' = [op |-> "click_positions"]
    /\ UNCHANGED <<hoverVars, mountVars, treeVars, focused_panel, panels, subscribers, guards, scheduled, panicked,
                   viewVars, editVars, captured, click_channel, id, cursor_channel,
                   keyVars, lspVars>>

\* a layout pass of the layout engine over the paragraph that carries the
\* cursor reference: with positions present it measures the column under
\* them in the line of the id and sends (col, row) to the agent
LayoutPass ==
    /\ ~panicked
    /\ positions # None
    /\ id # None
    /\ Len(cursor_channel) < MaxResponses
    /\ cursor_channel' = Append(cursor_channel, <<positions[1], id[1]>>)
    /\ last' = [op |-> "layout"]
    /\ UNCHANGED <<hoverVars, mountVars, treeVars, focused_panel, panels, subscribers, guards, scheduled, panicked,
                   viewVars, editVars, captured, click_channel, click_pending,
                   positions, id, keyVars, lspVars>>

\* the response listener of use_edit handles one response.  It reads the
\* editor through its own handle on the store value (captured); the rope's
\* line() panics on a row that is not a line of that rope; with_mut writes
\* the current value and notifies; the positions are taken in any case.
CursorResponse ==
    /\ ~panicked
    /\ cursor_channel # <<>>
    /\ LET new_cursor_col == recv(cursor_channel).msg[1]
           new_cursor_row == recv(cursor_channel).msg[2]
           editor == captured
           in_rope == new_cursor_row < len_lines(editor.rope)
           computed == new_cursor(editor, new_cursor_col, new_cursor_row)
           with_mut == in_rope /\ as_tuple(editor.cursor) # computed
       IN  /\ cursor_channel' = recv(cursor_channel).rest
           /\ panicked' = ~in_rope
           /\ cursor' = IF with_mut THEN TextCursor(computed[2], computed[1]) ELSE cursor
           /\ positions' = IF in_rope THEN take(positions) ELSE positions
           /\ last' = [op |-> "cursor_response", col |-> new_cursor_col,
                       row |-> new_cursor_row, with_mut |-> with_mut,
                       pre_cursor |-> cursor, pre_positions |-> positions]
    /\ UNCHANGED <<hoverVars, mountVars, treeVars, focused_panel, panels, subscribers, guards, scheduled, viewVars,
                   rope, captured, click_channel, click_pending, id, keyVars,
                   lspVars>>

\* ---------------------------------------------------- the keypress pipeline
is_focused_any_tab ==
    /\ focused_panel = panel_index
    /\ focused_view = "CodeEditor"

\* the guard of the editor tab's onkeydown
is_focused ==
    /\ focused_panel = panel_index
    /\ focused_view = "CodeEditor"
    /\ panels[panel_index + 1].active_tab = Some(editor_index)

\* tabs/code_editor.rs onkeydown for the keyboard event e: a focused editor
\* scrolls and sends the events of the match to the keypress listener, in
\* their order; any other editor does nothing
KeyDown(e) ==
    /\ ~panicked
    /\ guards = <<>>
    /\ keydowns < MaxKeyDowns
    /\ keydowns' = keydowns + 1
    /\ IF is_focused
       THEN LET current_scroll == scroll_offsets[2]
                dispatched == [k \in 1..Len(events(e)) |-> events(e)[k].data]
            IN  /\ scroll_offsets' = <<scroll_offsets[1], jump(e, current_scroll, metrics_len)>>
                /\ keypress_channel' = keypress_channel \o dispatched
                /\ sent' = sent \o dispatched
       ELSE UNCHANGED <<scroll_offsets, keypress_channel, sent>>
    /\ last' = [op |-> "keydown", e |-> e, accepted |-> is_focused,
                events |-> IF is_focused THEN events(e) ELSE <<>>,
                current_scroll |-> scroll_offsets[2], lines |-> metrics_len]
    /\ UNCHANGED <<hoverVars, mountVars, treeVars, focused_panel, panels, subscribers, guards, scheduled, panicked,
                   viewVars, editVars, syncVars, highlight_signals, applied,
                   metrics_len, lspVars>>

\* the keypress listener of use_edit receives one key: process_key on the
\* current editor value inside with_mut, and one send on highlight_trigger
\* when the text changed
KeypressReceive ==
    /\ ~panicked
    /\ keypress_channel # <<>>
    /\ LET pressed_key == recv(keypress_channel).msg
           result == process_key([rope |-> rope, cursor |-> cursor], pressed_key.key)
       IN  /\ keypress_channel' = recv(keypress_channel).rest
           /\ panicked' = result.panic
           /\ rope' = result.rope
           /\ cursor' = result.cursor
           /\ highlight_signals' =
                 IF ~result.panic /\ signals(result.event)
                 THEN highlight_signals + 1
                 ELSE highlight_signals
           /\ applied' = IF result.panic THEN applied
                         ELSE Append(applied, [key |-> pressed_key, event |-> result.event])
           /\ last' = [op |-> "process_key"]
    /\ UNCHANGED <<hoverVars, mountVars, treeVars, focused_panel, panels, subscribers, guards, scheduled, viewVars,
                   syncVars, sent, scroll_offsets, metrics_len, keydowns, lspVars>>

\* use_metrics after a signal on highlight_trigger: the syntax blocks are
\* parsed again from the rope
Highlight ==
    /\ ~panicked
    /\ highlight_signals > 0
    /\ metrics_len # len_lines(rope)
    /\ metrics_len' = len_lines(rope)
    /\ last' = [op |-> "highlight"]
    /\ UNCHANGED <<hoverVars, mountVars, treeVars, focused_panel, panels, subscribers, guards, scheduled, panicked,
                   viewVars, editVars, syncVars, keypress_channel, highlight_signals,
                   sent, applied, scroll_offsets, keydowns, lspVars>>

\* EditorManager::set_focused_view on the view fields of the store
set_focused_view(view, focused) ==
    [previous_focused_view |-> Some(view.focused_view), focused_view |-> focused]

\* EditorManager::set_focused_view_to_previous
set_focused_view_to_previous(view) ==
    IF view.previous_focused_view # None
    THEN [previous_focused_view |-> None,
          focused_view |-> view.previous_focused_view[1]]
    ELSE view

\* main.rs onkeydown of the root element for Escape and for Alt+e, under a
\* guard from global_write
RootKeyDown ==
    \E key \in {"Escape", "e"} :
        LET view == [previous_focused_view |-> previous_focused_view,
                     focused_view |-> focused_view]
            new == IF key = "Escape"
                   THEN IF focused_view = "Commander"
                        THEN set_focused_view_to_previous(view)
                        ELSE set_focused_view(view, "Commander")
                   ELSE IF focused_view = "FilesExplorer"
                        THEN set_focused_view(view, "CodeEditor")
                        ELSE set_focused_view(view, "FilesExplorer")
        IN  /\ ~panicked
            /\ borrow_mut(guards)
            /\ focused_view' = new.focused_view
            /\ previous_focused_view' = new.previous_focused_view
            /\ scheduled' = drop(global_write(subscribers, RootScope), subscribers)
            /\ last' = [op |-> "root_keydown", key |-> key]
            /\ UNCHANGED <<hoverVars, mountVars, treeVars, focused_panel, panels, subscribers, guards, panicked,
                           editVars, syncVars, keyVars, lspVars>>

\* a keydown event with any key and modifiers
AnyKeyDown == \E e \in KeyboardData : KeyDown(e)

NextKeys ==
    \/ AnyKeyDown
    \/ KeypressReceive
    \/ Highlight
    \/ RootKeyDown

\* keydown events on the editor tab, through the pipeline to the editor
SpecKeys == InitSurface /\ [][NextKeys]_vars

\* two panels, the first with the editor of the surface and a second tab
FocusPanels ==
    <<[active_tab |-> Some(editor_index),
       tabs |-> <<TextEditor("/a.rs"), TextEditor("/b.rs")>>],
      [active_tab |-> Some(0), tabs |-> <<TextEditor("/b.rs")>>]>>

InitFocus ==
    /\ NewStore(FocusPanels)
    /\ NewSurface(ShortRope)

NextFocus ==
    \/ AnyKeyDown
    \/ RootKeyDown
    \/ PanelClick
    \/ TabClick

\* keydown events taken by the editor tab while the focus moves between
\* the panels, the tabs and the views
SpecFocus == InitFocus /\ [][NextFocus]_vars

NextCursor ==
    \/ MouseDown
    \/ ClickReceive
    \/ ClickPublish
    \/ LayoutPass
    \/ CursorResponse
    \/ KeypressReceive

\* clicks on the lines of the editor, the layout engine answering them,
\* and a key that changes the lines
SpecCursor == InitCursor /\ [][NextCursor]_vars

\* -------------------------------------------- language server sessions
\* the borrows alive without the Ref the task t holds
Release(gs, t) ==
    SelectSeq(gs, LAMBDA g : ~(g.via = "current" /\ g.task = t))

\* EditorManager::get_or_insert_lsp called by the task t for the key of its
\* LspConfig, up to its return or to the await of create_lsp.  With the key
\* in the map it returns the clone of the bridge.  Otherwise create_lsp is
\* called with a borrow of the store, a temporary that lives to the end of
\* the statement and so across the await, and the task is suspended.
GetOrInsertLsp(t, language_server) ==
    /\ ~panicked
    /\ tasks[t].pc = "idle"
    /\ borrow(guards)
    /\ LET server == lsp(language_servers, language_server)
       IN  IF server # None
           THEN /\ tasks' = [tasks EXCEPT ![t] =
                                [pc |-> "returned", language_server |-> language_server,
                                 server |-> server[1]]]
                /\ last' = [op |-> "get_or_insert_lsp", task |-> t, found |-> TRUE,
                            language_server |-> language_server,
                            language_servers |-> language_servers,
                            started |-> started]
                /\ UNCHANGED <<guards, started>>
           ELSE /\ tasks' = [tasks EXCEPT ![t] =
                                [pc |-> "create_lsp", language_server |-> language_server,
                                 server |-> LSPBridge(Len(started) + 1)]]
                /\ started' = Append(started, language_server)
                /\ guards' = Append(guards, [via |-> "current", task |-> t])
                /\ last' = [op |-> "get_or_insert_lsp", task |-> t, found |-> FALSE,
                            language_server |-> language_server,
                            language_servers |-> language_servers,
                            started |-> started]
    /\ UNCHANGED <<hoverVars, mountVars, treeVars, focused_panel, panels, subscribers, scheduled, panicked,
                   language_servers, viewVars, editVars, syncVars, keyVars>>

\* the mount hook of a CodeEditorTab spawns a task that calls
\* get_or_insert_lsp with the configuration of the tab's language
Spawned == \E t \in Tasks, language_server \in LanguageServers :
              GetOrInsertLsp(t, language_server)

\* create_lsp completes for the task t: the statement ends and its borrow
\* is released, manager.write() takes a guard, insert_lsp registers the
\* bridge, the guard is dropped and the bridge is returned.  The write
\* panics when another borrow is alive.
CreateLspDone ==
    \E t \in Tasks, scope \in DOMAIN subscribers :
        /\ ~panicked
        /\ tasks[t].pc = "create_lsp"
        /\ LET held == Release(guards, t)
               granted == borrow_mut(held)
           IN  /\ guards' = held
               /\ panicked' = ~granted
               /\ language_servers' =
                     IF granted
                     THEN insert_lsp(language_servers, tasks[t].language_server,
                                     tasks[t].server)
                     ELSE language_servers
               /\ scheduled' = IF granted
                               THEN drop(write(subscribers, scope), subscribers)
                               ELSE scheduled
               /\ tasks' = IF granted
                           THEN [tasks EXCEPT ![t].pc = "returned"]
                           ELSE tasks
               /\ last' = [op |-> "insert_lsp", task |-> t,
                           language_server |-> tasks[t].language_server,
                           server |-> tasks[t].server]
        /\ UNCHANGED <<hoverVars, mountVars, treeVars, focused_panel, panels, subscribers, started, viewVars,
                       editVars, syncVars, keyVars>>

\* the spawned task ends after its call has returned; a later mount spawns
\* a task again
TaskEnd ==
    \E t \in Tasks :
        /\ ~panicked
        /\ tasks[t].pc = "returned"
        /\ tasks' = [tasks EXCEPT ![t] = IdleTask]
        /\ last' = [op |-> "task_end", task |-> t]
        /\ UNCHANGED <<hoverVars, mountVars, treeVars, focused_panel, panels, subscribers, guards, scheduled,
                       panicked, language_servers, started, viewVars, editVars,
                       syncVars, keyVars>>

NextLsp ==
    \/ Spawned
    \/ CreateLspDone
    \/ TaskEnd

\* editors mounting, each asking for the session of its language
SpecLsp == Init /\ [][NextLsp]_vars

\* ------------------------------------------------------- hover requests
\* LspConfig::new for the props of the editor tab: the language server of
\* the tab's language
lsp_config == [language_server |-> "rust-analyzer"]

\* rope.line(line_index).to_string() of a rendered line
line_str(r, line_index) ==
    SubSeq(r, line_to_char(r, line_index) + 1, line_to_char(r, line_index + 1))

\* create_paragraph(line_str, font_size).max_intrinsic_width(), in columns:
\* the glyphs of the line, a line break having no width
max_intrinsic_width(str) ==
    Cardinality({i \in 1..Len(str) : str[i] # "\n"})

\* paragraph.get_glyph_position_at_coordinate(coords).position, in columns:
\* the glyph under x, the end of the text for an x past it
glyph_position(str, x) ==
    IF x < max_intrinsic_width(str) THEN x ELSE max_intrinsic_width(str)

\* LspAction::Hover(HoverParams) for the file of the tab
Hover(line, character) == [kind |-> "Hover", line |-> line, character |-> character]

\* LspAction::Clear
Clear == [kind |-> "Clear"]

\* what hover(params).await yields: a hover, no hover, or an error
Responses == {[ok |-> TRUE, res |-> Some("doc")], [ok |-> TRUE, res |-> None],
              [ok |-> FALSE, res |-> None]}

\* UseDebouncer::action: the closure replaces the one that has not run yet
action(pending, closure) == Some(closure)

\* an indexed flag that always reads true
is_indexed_always(server, flags) == TRUE

\* an indexed flag that always reads false
is_indexed_never(server, flags) == FALSE

\* *lsp.indexed.lock().unwrap(): the flag of the bridge, as it is now
is_indexed(server, flags) == server.indexed \in flags

\* the value lsp_coroutine writes to hover_location for a response
hover_stored(line, response) ==
    IF response.ok /\ response.res # None
    THEN Some(<<line, response.res[1]>>)
    ELSE None

\* the lines of the editor tab that are rendered
HoverLines == 0..(len_lines(rope) - 1)

\* EditorLine onmouseover of the line line_index at the element coordinate
\* x: the coordinates are written to cursor_coords, and on the text of the
\* line the debouncer is given the closure that sends the hover of the
\* line; past the text Clear is sent.  The pointer enters a line from
\* outside the lines.
MouseOver ==
    \E line_index \in HoverLines, x \in Columns :
        /\ ~panicked
        /\ mouseovers < MaxMouseOvers
        /\ IF pointer = None THEN TRUE ELSE pointer[1].line = line_index
        /\ mouseovers' = mouseovers + 1
        /\ cursor_coords' = x
        /\ pointer' = Some([line |-> line_index, x |-> x])
        /\ IF x < max_intrinsic_width(line_str(rope, line_index))
           THEN /\ debouncer' = action(debouncer, [line_index |-> line_index])
                /\ trigger' = Some([line |-> line_index, x |-> x])
                /\ UNCHANGED lsp_channel
           ELSE /\ lsp_channel' = Append(lsp_channel, Clear)
                /\ UNCHANGED <<debouncer, trigger>>
        /\ last' = [op |-> "mouseover", line |-> line_index, x |-> x]
        /\ UNCHANGED <<focused_panel, panels, subscribers, guards, scheduled, panicked,
                       hover_location, lsp_task, indexed, requests, withheld,
                       viewVars, editVars, syncVars, keyVars, lspVars, mountVars,
                       treeVars>>

\* EditorLine onmouseleave: the pointer leaves the line it is over
MouseLeave ==
    /\ ~panicked
    /\ pointer # None
    /\ pointer' = None
    /\ lsp_channel' = Append(lsp_channel, Clear)
    /\ last' = [op |-> "mouseleave", line |-> pointer[1].line]
    /\ UNCHANGED <<focused_panel, panels, subscribers, guards, scheduled, panicked,
                   hover_location, lsp_task, debouncer, cursor_coords, trigger,
                   indexed, requests, withheld, mouseovers,
                   viewVars, editVars, syncVars, keyVars, lspVars, mountVars,
                   treeVars>>

\* the delay of the debouncer has elapsed with no further call: the closure
\* runs.  It reads cursor_coords, finds the glyph under them in the
\* paragraph of its line and sends the hover of that position.
Debounced ==
    /\ ~panicked
    /\ debouncer # None
    /\ LET line_index == debouncer[1].line_index
           glyph == glyph_position(line_str(rope, line_index), cursor_coords)
       IN  /\ lsp_channel' = Append(lsp_channel, Hover(line_index, glyph))
           /\ last' = [op |-> "debounced", sent |-> Hover(line_index, glyph),
                       lsp_channel |-> lsp_channel]
    /\ debouncer' = None
    /\ UNCHANGED <<focused_panel, panels, subscribers, guards, scheduled, panicked,
                   hover_location, lsp_task, cursor_coords, pointer, trigger,
                   indexed, requests, withheld, mouseovers,
                   viewVars, editVars, syncVars, keyVars, lspVars, mountVars,
                   treeVars>>

\* lsp_coroutine takes the next action.  Clear empties hover_location.  A
\* hover looks the bridge up in the store and reads its indexed flag: with
\* no bridge or a false flag a notice is printed, otherwise the request is
\* sent and the coroutine awaits the response.
LspReceive ==
    /\ ~panicked
    /\ lsp_task.pc = "idle"
    /\ lsp_channel # <<>>
    /\ LET received == recv(lsp_channel)
           server == lsp(language_servers, lsp_config.language_server)
           record == [op |-> "lsp_action", action |-> received.msg,
                      language_servers |-> language_servers, indexed |-> indexed,
                      hover_location |-> hover_location, requests |-> requests]
       IN  /\ lsp_channel' = received.rest
           /\ last' = record
           /\ IF received.msg.kind = "Clear"
              THEN /\ hover_location' = None
                   /\ UNCHANGED <<lsp_task, requests, withheld, panicked>>
              ELSE IF ~borrow(guards)
              THEN /\ panicked' = TRUE
                   /\ UNCHANGED <<hover_location, lsp_task, requests, withheld>>
              ELSE IF server = None
              THEN /\ withheld' = Append(withheld, [line |-> received.msg.line,
                                                    notice |-> "LSP: Not running."])
                   /\ UNCHANGED <<hover_location, lsp_task, requests, panicked>>
              ELSE IF ~is_indexed(server[1], indexed)
              THEN /\ withheld' = Append(withheld, [line |-> received.msg.line,
                                                    notice |-> "LSP: Still indexing..."])
                   /\ UNCHANGED <<hover_location, lsp_task, requests, panicked>>
              ELSE /\ requests' = Append(requests, [line |-> received.msg.line,
                                                    character |-> received.msg.character,
                                                    server_socket |-> server[1].server_socket])
                   /\ lsp_task' = [pc |-> "hover", line |-> received.msg.line]
                   /\ UNCHANGED <<hover_location, withheld, panicked>>
    /\ UNCHANGED <<focused_panel, panels, subscribers, guards, scheduled,
                   debouncer, cursor_coords, pointer, trigger, indexed, mouseovers,
                   viewVars, editVars, syncVars, keyVars, lspVars, mountVars,
                   treeVars>>

\* the language server answers the hover request lsp_coroutine awaits
HoverResponse ==
    \E response \in Responses :
        /\ ~panicked
        /\ lsp_task.pc = "hover"
        /\ hover_location' = hover_stored(lsp_task.line, response)
        /\ lsp_task' = [pc |-> "idle"]
        /\ last' = [op |-> "hover_response", line |-> lsp_task.line,
                    response |-> response]
        /\ UNCHANGED <<focused_panel, panels, subscribers, guards, scheduled, panicked,
                       lsp_channel, debouncer, cursor_coords, pointer, trigger,
                       indexed, requests, withheld, mouseovers,
                       viewVars, editVars, syncVars, keyVars, lspVars, mountVars,
                       treeVars>>

\* the task of a session sets its indexed flag when the language server
\* reports that it has indexed the project
Indexed ==
    \E n \in 1..Len(started) :
        /\ ~panicked
        /\ n \notin indexed
        /\ indexed' = indexed \cup {n}
        /\ last' = [op |-> "indexed", session |-> n]
        /\ UNCHANGED <<focused_panel, panels, subscribers, guards, scheduled, panicked,
                       hover_location, lsp_channel, lsp_task, debouncer, cursor_coords,
                       pointer, trigger, requests, withheld, mouseovers,
                       viewVars, editVars, syncVars, keyVars, lspVars, mountVars,
                       treeVars>>

\* an editor tab on the short rope whose mount hook has spawned the task
\* that asks for the session of its language: create_lsp has been called
\* and has not completed
InitHover ==
    /\ focused_panel = NewManager.focused_panel
    /\ panels = OpenedPanels
    /\ focused_view = "CodeEditor"
    /\ previous_focused_view = None
    /\ language_servers = <<>>
    /\ subscribers = [s \in {RootScope} |-> All]
    /\ guards = <<[via |-> "current", task |-> 1]>>
    /\ scheduled = {}
    /\ panicked = FALSE
    /\ last = [op |-> "new"]
    /\ tasks = [t \in Tasks |->
                  IF t = 1
                  THEN [pc |-> "create_lsp",
                        language_server |-> lsp_config.language_server,
                        server |-> LSPBridge(1)]
                  ELSE IdleTask]
    /\ started = <<lsp_config.language_server>>
    /\ NewSurface(ShortRope)

NextHover ==
    \/ MouseOver
    \/ MouseLeave
    \/ Debounced
    \/ LspReceive
    \/ HoverResponse
    \/ Indexed
    \/ CreateLspDone

\* the pointer moving over the lines of an editor tab while the session of
\* its language is created and indexes the project
SpecHover == InitHover /\ [][NextHover]_vars

\* ------------------------------------------------------ mounting editors
\* a path that is not absolute
RelativePath == "c.rs"

\* Url::from_file_path(path): the file uri of an absolute path, an error
\* for any other path
from_file_path(path) ==
    IF path = RelativePath THEN None ELSE Some("file://" \o path)

\* the key main.rs gives the component it renders for the active tab of a
\* panel, if the tab is a text editor
RenderedKey(panel) ==
    IF panel.active_tab = None THEN None
    ELSE IF panel.tabs[panel.active_tab[1] + 1].kind # "TextEditor" THEN None
    ELSE Some(get_data(panel.tabs[panel.active_tab[1] + 1]).id)

\* Body renders a panel whose active tab is not the one its CodeEditorTab
\* was created for.  The component of the other key is dropped and one is
\* created for the active tab: its mount hook focuses the tab with a scoped
\* write, converts the path of the editor to a uri and spawns the task that
\* notifies the language server; then the body of the component converts
\* the path again.  Both conversions are unwrapped.  The component is
\* created once no borrow of the store is alive.  The listeners use_edit
\* spawns for it capture the panel index and the tab index of this render.
Render ==
    \E panel \in PanelIndices, t \in Tasks :
        LET key == RenderedKey(panels[panel + 1])
        IN  /\ ~panicked
            /\ mounted[panel + 1] # key
            /\ IF key = None
               THEN /\ mounted' = [mounted EXCEPT ![panel + 1] = None]
                    /\ listening' = [listening EXCEPT ![panel + 1] = None]
                    /\ last' = [op |-> "unmount", panel |-> panel]
                    /\ t = 1
                    /\ UNCHANGED <<focused_panel, panels, scheduled, panicked,
                                   spawned, mounts>>
               ELSE LET editor == panels[panel + 1].active_tab[1]
                        file_uri == from_file_path(key[1])
                        m == set_active_tab(set_focused_panel(manager, panel),
                                            panel, editor)
                    IN  /\ mounts < MaxMounts
                        /\ borrow_mut(guards)
                        /\ tasks[t].pc = "idle"
                        /\ spawned[t] = None
                        /\ \A u \in Tasks : (u < t) => spawned[u] # None
                        /\ mounts' = mounts + 1
                        /\ focused_panel' = m.focused_panel
                        /\ panels' = m.panels
                        /\ scheduled' = drop(write(subscribers, RootScope), subscribers)
                        /\ panicked' = (file_uri = None)
                        /\ mounted' = IF file_uri = None THEN mounted
                                      ELSE [mounted EXCEPT ![panel + 1] = key]
                        /\ listening' =
                              IF file_uri = None THEN listening
                              ELSE [listening EXCEPT ![panel + 1] =
                                       Some([pane_index |-> panel,
                                             editor_index |-> editor])]
                        /\ spawned' = IF file_uri = None THEN spawned
                                      ELSE [spawned EXCEPT ![t] = file_uri]
                        /\ last' = [op |-> "mount", panel |-> panel, editor |-> editor,
                                    path |-> key[1], file_uri |-> file_uri,
                                    pre |-> manager]
            /\ UNCHANGED <<subscribers, guards, did_opens, handles, editors, viewVars,
                           editVars, syncVars, keyVars, lspVars, hoverVars, treeVars>>

\* the task a mount hook spawned calls get_or_insert_lsp
MountCall ==
    \E t \in Tasks :
        /\ spawned[t] # None
        /\ GetOrInsertLsp(t, lsp_config.language_server)

\* the task a mount hook spawned has its bridge and sends did_open for the
\* file of its editor
DidOpen ==
    \E t \in Tasks :
        /\ ~panicked
        /\ spawned[t] # None
        /\ tasks[t].pc = "returned"
        /\ did_opens' = Append(did_opens, spawned[t][1])
        /\ spawned' = [spawned EXCEPT ![t] = None]
        /\ tasks' = [tasks EXCEPT ![t] = IdleTask]
        /\ last' = [op |-> "did_open", uri |-> spawned[t][1]]
        /\ UNCHANGED <<focused_panel, panels, subscribers, guards, scheduled, panicked,
                       language_servers, started, mounted, mounts, handles, listening, editors,
                       viewVars, editVars, syncVars, keyVars, hoverVars, treeVars>>

\* a panel with three text editors open, two of them on absolute paths,
\* before the first render
MountPanels ==
    <<[active_tab |-> Some(0),
       tabs |-> <<TextEditor("/a.rs"), TextEditor("/b.rs"), TextEditor(RelativePath)>>]>>

InitMount ==
    /\ NewStore(MountPanels)
    /\ rope = <<>>
    /\ cursor = TextCursor(0, 0)
    /\ captured = EditorData(<<>>, <<0, 0>>)
    /\ click_channel = <<>>
    /\ click_pending = None
    /\ positions = None
    /\ id = None
    /\ cursor_channel = <<>>
    /\ keypress_channel = <<>>
    /\ highlight_signals = 0
    /\ sent = <<>>
    /\ applied = <<>>
    /\ scroll_offsets = <<0, 0>>
    /\ metrics_len = 1
    /\ keydowns = 0
    /\ hover_location = None
    /\ lsp_channel = <<>>
    /\ lsp_task = [pc |-> "idle"]
    /\ debouncer = None
    /\ cursor_coords = 0
    /\ pointer = None
    /\ trigger = None
    /\ indexed = {}
    /\ requests = <<>>
    /\ withheld = <<>>
    /\ mouseovers = 0
    /\ mounted = <<None>>
    /\ spawned = [t \in Tasks |-> None]
    /\ did_opens = <<>>
    /\ mounts = 0
    /\ handles = [subscribers |-> {RootScope}, refs |-> <<>>]
    /\ listening = <<None>>
    /\ editors = <<[key \in {get_data(MountPanels[1].tabs[i]).id :
                                 i \in 1..Len(MountPanels[1].tabs)} |->
                        EditorData(ShortRope, <<0, 0>>)]>>
    /\ tree_channel = <<>>
    /\ tree_task = [pc |-> "idle"]
    /\ focused_item = 0
    /\ app_writes = <<>>
    /\ entries = <<>>
    /\ items = None
    /\ tree_tasks = 0

NextMount ==
    \/ TabClick
    \/ PanelClick
    \/ Render
    \/ MountCall
    \/ CreateLspDone
    \/ DidOpen

\* tabs of a panel clicked in turn, each render mounting the editor of the
\* tab that has become active
SpecMount == InitMount /\ [][NextMount]_vars

\* the keypress listener of the surface mounted in a panel receives a key
\* its surface sent: process_key inside with_mut on the editor found in the
\* current value at the indices the listener captured, a panic when an
\* index is past the end, and one send on highlight_trigger when the text
\* changed
KeypressListener ==
    \E panel \in PanelIndices, pressed_key \in LineKeys :
        /\ ~panicked
        /\ listening[panel + 1] # None
        /\ keydowns < MaxKeyDowns
        /\ LET pane == listening[panel + 1][1].pane_index
               editor == listening[panel + 1][1].editor_index
               in_range == /\ pane < Len(panels)
                           /\ editor < Len(panels[pane + 1].tabs)
               key == get_data(panels[pane + 1].tabs[editor + 1]).id
               result == process_key(editors[pane + 1][key], pressed_key.key)
               done == IF in_range THEN ~result.panic ELSE FALSE
           IN  /\ keydowns' = keydowns + 1
               /\ panicked' = ~done
               /\ editors' = IF done
                             THEN [editors EXCEPT ![pane + 1][key] =
                                      [rope |-> result.rope, cursor |-> result.cursor]]
                             ELSE editors
               /\ highlight_signals' =
                     IF done
                     THEN IF signals(result.event) THEN highlight_signals + 1
                          ELSE highlight_signals
                     ELSE highlight_signals
               /\ last' = [op |-> "keypress", panel |-> panel,
                           shown |-> mounted[panel + 1],
                           tab |-> IF in_range THEN Some(key) ELSE None,
                           pre |-> editors]
        /\ UNCHANGED <<focused_panel, panels, subscribers, guards, scheduled,
                       mounted, spawned, did_opens, mounts, handles, listening,
                       keypress_channel, sent, applied, scroll_offsets, metrics_len,
                       viewVars, editVars, syncVars, lspVars, hoverVars, treeVars>>

NextSurfaces ==
    \/ TabClick
    \/ CloseEditor
    \/ Render
    \/ KeypressListener

\* tabs of a panel clicked and closed in turn, each render mounting the
\* editor of the tab that has become active, and keys delivered to the
\* listener of the mounted surface
SpecSurfaces == InitMount /\ [][NextSurfaces]_vars

\* ------------------------------------------------------------ file explorer

\* the folder the explorer shows
RootPath == "/r"

\* the paths the entries of a directory listing are drawn from
EntryPaths == <<"/r/a", "/r/b", "/r/c", "/r/d", "/r/e">>

\* what entry.file_type() answers: a file type, or an error
FileTypes == {"file", "dir", "symlink", "Err"}

\* TreeItem::File and TreeItem::Folder
File(path) == [kind |-> "File", path |-> path]

Folder(path, state) == [kind |-> "Folder", path |-> path, state |-> state]

\* FolderState::Closed; FolderState::Opened(items) is Some(items)
Closed == None

\* what a transport answers to one read of a directory: read_dir fails, or
\* it succeeds and next_entry hands out the entries of list in turn, each
\* with a path of its own, and then answers None or an error
Listings ==
    {[read_dir |-> "Err", list |-> <<>>, end |-> "None"]}
    \cup
    UNION {
        {[read_dir |-> "Ok",
          list |-> [i \in 1..k |-> [path |-> EntryPaths[ps[i]], file_type |-> ts[i]]],
          end |-> e] :
            ps \in {q \in [1..k -> 1..MaxEntries] :
                        \A i, j \in 1..k : i # j => q[i] # q[j]},
            ts \in [1..k -> FileTypes],
            e \in {"None", "Err"}} :
        k \in 0..MaxEntries}

\* the result of an io::Result
Ok(x) == [ok |-> TRUE, value |-> x]

Err == [ok |-> FALSE]

\* read_folder_as_items with the files in front of the folders
read_folder_as_items_files_first(listing) ==
    LET RECURSIVE next_entry(_, _, _)
        next_entry(paths, folder_items, files_items) ==
            IF paths = <<>>
            THEN Ok(files_items \o folder_items)
            ELSE LET entry == Head(paths)
                 IN  IF entry.file_type = "Err"
                     THEN Err
                     ELSE IF entry.file_type = "file"
                          THEN next_entry(Tail(paths), folder_items,
                                          Append(files_items, File(entry.path)))
                          ELSE next_entry(Tail(paths),
                                          Append(folder_items, Folder(entry.path, Closed)),
                                          files_items)
    IN  IF listing.read_dir = "Err" THEN Err ELSE next_entry(listing.list, <<>>, <<>>)

\* read_folder_as_items: the loop takes entries while next_entry answers
\* Ok(Some(entry)), an error of file_type is returned by `?`, and the files
\* are appended to the folders
read_folder_as_items(listing) ==
    LET RECURSIVE next_entry(_, _, _)
        next_entry(paths, folder_items, files_items) ==
            IF paths = <<>>
            THEN Ok(folder_items \o files_items)
            ELSE LET entry == Head(paths)
                 IN  IF entry.file_type = "Err"
                     THEN Err
                     ELSE IF entry.file_type = "file"
                          THEN next_entry(Tail(paths), folder_items,
                                          Append(files_items, File(entry.path)))
                          ELSE next_entry(Tail(paths),
                                          Append(folder_items, Folder(entry.path, Closed)),
                                          files_items)
    IN  IF listing.read_dir = "Err" THEN Err ELSE next_entry(listing.list, <<>>, <<>>)

\* Path::components of the paths the explorer meets
components(path) ==
    CASE path = "/r" -> <<"r">>
      [] path = "/r/a" -> <<"r", "a">>
      [] path = "/r/b" -> <<"r", "b">>
      [] path = "/r/c" -> <<"r", "c">>
      [] path = "/r/d" -> <<"r", "d">>
      [] path = "/r/e" -> <<"r", "e">>
      [] path = "/r/a/s" -> <<"r", "a", "s">>
      [] path = "/r/a/sx" -> <<"r", "a", "sx">>
      [] path = "/r/a/f" -> <<"r", "a", "f">>
      [] path = "/r/a/s/g" -> <<"r", "a", "s", "g">>

\* Path::starts_with: base is a prefix of path, component by component
starts_with(path, base) ==
    LET p == components(path)
        b == components(base)
    IN  Len(b) <= Len(p) /\ SubSeq(p, 1, Len(b)) = b

\* transport.read_dir of a folder: the folder shown at the root reads as
\* listing, the folders below it as a fixed tree of files
read_dir(dir, listing) ==
    LET ok(list) == [read_dir |-> "Ok", list |-> list, end |-> "None"]
    IN  CASE dir = "/r" -> listing
          [] dir = "/r/a" -> ok(<<[path |-> "/r/a/f", file_type |-> "file"],
                                  [path |-> "/r/a/s", file_type |-> "dir"],
                                  [path |-> "/r/a/sx", file_type |-> "dir"]>>)
          [] dir = "/r/a/s" -> ok(<<[path |-> "/r/a/s/g", file_type |-> "file"]>>)
          [] OTHER -> ok(<<>>)

\* set_folder_state that looks at the item it is called on only
set_folder_state_no_descent(item, folder_path, folder_state) ==
    IF item.kind = "Folder" /\ item.path = folder_path
    THEN [item EXCEPT !.state = folder_state]
    ELSE item

\* TreeItem::set_folder_state
set_folder_state(item, folder_path, folder_state) ==
    LET RECURSIVE set(_)
        set(it) ==
            IF it.kind = "Folder"
            THEN IF it.path = folder_path
                 THEN [it EXCEPT !.state = folder_state]
                 ELSE IF starts_with(folder_path, it.path) /\ it.state # Closed
                      THEN [it EXCEPT !.state =
                                Some([i \in 1..Len(it.state[1]) |-> set(it.state[1][i])])]
                      ELSE it
            ELSE it
    IN  set(item)

\* TreeItem::flat with the items of an opened folder at the folder's depth
flat_same_depth(item, depth, root_path) ==
    LET RECURSIVE fl(_, _)
        RECURSIVE inner(_, _, _)
        fl(it, d) ==
            <<[path |-> it.path,
               is_file |-> it.kind = "File",
               is_opened |-> IF it.kind = "File" THEN FALSE ELSE it.state # Closed,
               depth |-> d,
               root_path |-> root_path]>>
            \o (IF it.kind = "Folder"
                THEN IF it.state # Closed THEN inner(it.state[1], 1, d) ELSE <<>>
                ELSE <<>>)
        inner(its, k, d) ==
            IF k > Len(its) THEN <<>> ELSE fl(its[k], d) \o inner(its, k + 1, d)
    IN  fl(item, depth)

\* TreeItem::flat, with into_flat: the item, then the items of an opened
\* folder one level deeper
flat(item, depth, root_path) ==
    LET RECURSIVE fl(_, _)
        RECURSIVE inner(_, _, _)
        fl(it, d) ==
            <<[path |-> it.path,
               is_file |-> it.kind = "File",
               is_opened |-> IF it.kind = "File" THEN FALSE ELSE it.state # Closed,
               depth |-> d,
               root_path |-> root_path]>>
            \o (IF it.kind = "Folder"
                THEN IF it.state # Closed THEN inner(it.state[1], 1, d) ELSE <<>>
                ELSE <<>>)
        inner(its, k, d) ==
            IF k > Len(its) THEN <<>> ELSE fl(its[k], d + 1) \o inner(its, k + 1, d)
    IN  fl(item, depth)

\* TreeTask
OpenFolder(folder_path, root_path) ==
    [kind |-> "OpenFolder", path |-> folder_path, root_path |-> root_path]

CloseFolder(folder_path, root_path) ==
    [kind |-> "CloseFolder", path |-> folder_path, root_path |-> root_path]

OpenFile(file_path, root_path) ==
    [kind |-> "OpenFile", path |-> file_path, root_path |-> root_path]

TreeTasks ==
    {OpenFolder(RootPath, RootPath), CloseFolder(RootPath, RootPath)}
    \cup {OpenFile(file_path, RootPath) : file_path \in Paths}

\* the indices of the items shown
ItemIndices == 0..1

\* a write guard of the application state taken by the coroutine while it
\* works on its n-th task
AppWrite(n, channel, call) == [task |-> n, channel |-> channel, call |-> call]

\* AppState::open_file: the file becomes a text editor tab of the focused
\* panel, and the active one
open_file(m, file_path) == push_tab(m, TextEditor(file_path), m.focused_panel, TRUE)

\* the OpenFile arm with the result of the read ignored
open_file_arm_ignores_error(content, m, file_path) == Some(open_file(m, file_path))

\* the OpenFile arm once read_to_string has answered: the store written
\* under the guard, or None when no guard is taken
open_file_arm(content, m, file_path) ==
    IF content = "Ok" THEN Some(open_file(m, file_path)) ELSE None

\* onclick of an item: its task and its index are sent to the coroutine
Send(task) ==
    \E item_index \in ItemIndices :
        /\ tree_tasks < MaxTreeTasks
        /\ tree_channel' = Append(tree_channel, [task |-> task, item_index |-> item_index])
        /\ tree_tasks' = tree_tasks + 1
        /\ last' = [op |-> "send", task |-> task]
        /\ UNCHANGED <<focused_panel, panels, subscribers, guards, scheduled, panicked,
                       tree_task, focused_item, app_writes, entries, items,
                       viewVars, editVars, syncVars, keyVars, lspVars, hoverVars,
                       mountVars>>

ItemClick == \E task \in TreeTasks : Send(task)

FolderClick == Send(OpenFolder(RootPath, RootPath))

\* the items the explorer shows
Shown == flat(Folder(RootPath, items), 0, RootPath)

\* file_explorer_item_builder: onclick of the item shown at index sends
\* OpenFile for a file, CloseFolder for a folder shown opened and OpenFolder
\* for one shown closed
OnClick ==
    \E index \in 0..(Len(Shown) - 1) :
        LET item == Shown[index + 1]
            task == IF item.is_file
                    THEN OpenFile(item.path, item.root_path)
                    ELSE IF item.is_opened
                         THEN CloseFolder(item.path, item.root_path)
                         ELSE OpenFolder(item.path, item.root_path)
        IN  /\ tree_tasks < MaxTreeTasks
            /\ tree_channel' = Append(tree_channel, [task |-> task, item_index |-> index])
            /\ tree_tasks' = tree_tasks + 1
            /\ last' = [op |-> "onclick", task |-> task, shown |-> Shown]
            /\ UNCHANGED <<focused_panel, panels, subscribers, guards, scheduled, panicked,
                           tree_task, focused_item, app_writes, entries, items,
                           viewVars, editVars, syncVars, keyVars, lspVars, hoverVars,
                           mountVars>>

\* the coroutine takes its next task: it focuses the explorer when another
\* view is focused, then closes the folder, or starts the read the task asks
\* for and waits for the transport
TreeReceive ==
    /\ tree_task.pc = "idle"
    /\ tree_channel # <<>>
    /\ LET task == Head(tree_channel).task
           item_index == Head(tree_channel).item_index
           n == tree_tasks - Len(tree_channel) + 1
           view == [previous_focused_view |-> previous_focused_view,
                    focused_view |-> focused_view]
           switch == focused_view # "FilesExplorer"
           focused == IF switch THEN set_focused_view(view, "FilesExplorer") ELSE view
           switched == IF switch
                       THEN Append(app_writes, AppWrite(n, "Global", "set_focused_view"))
                       ELSE app_writes
       IN  /\ tree_channel' = Tail(tree_channel)
           /\ focused_view' = focused.focused_view
           /\ previous_focused_view' = focused.previous_focused_view
           /\ IF task.kind = "CloseFolder"
              THEN /\ app_writes' = Append(switched,
                                           AppWrite(n, "FileExplorer", "set_folder_state"))
                   /\ items' = set_folder_state(Folder(task.root_path, items),
                                                 task.path, Closed).state
                   /\ focused_item' = item_index
                   /\ UNCHANGED tree_task
              ELSE /\ app_writes' = switched
                   /\ tree_task' = [pc |-> IF task.kind = "OpenFolder"
                                           THEN "read_folder" ELSE "read_file",
                                    task |-> task, item_index |-> item_index, n |-> n]
                   /\ UNCHANGED <<items, focused_item>>
           /\ last' = [op |-> "tree_task", task |-> task, n |-> n, pre |-> items]
    /\ UNCHANGED <<focused_panel, panels, subscribers, guards, scheduled, panicked,
                   entries, tree_tasks,
                   editVars, syncVars, keyVars, lspVars, hoverVars, mountVars>>

\* read_folder_as_items has answered the OpenFolder task
ReadFolderDone ==
    /\ tree_task.pc = "read_folder"
    /\ LET task == tree_task.task
           listing == read_dir(task.path, entries)
           result == read_folder_as_items(listing)
       IN  /\ IF result.ok
              THEN /\ app_writes' = Append(app_writes,
                                           AppWrite(tree_task.n, "FileExplorer",
                                                    "set_folder_state"))
                   /\ items' = set_folder_state(Folder(task.root_path, items),
                                                 task.path, Some(result.value)).state
              ELSE UNCHANGED <<app_writes, items>>
           /\ last' = [op |-> "read_folder", entries |-> listing, result |-> result,
                       path |-> task.path, pre |-> items]
    /\ focused_item' = tree_task.item_index
    /\ tree_task' = [pc |-> "idle"]
    /\ UNCHANGED <<focused_panel, panels, subscribers, guards, scheduled, panicked,
                   tree_channel, entries, tree_tasks,
                   viewVars, editVars, syncVars, keyVars, lspVars, hoverVars, mountVars>>

\* read_to_string has answered the OpenFile task, with the text of the file
\* or with an error
ReadFileDone ==
    /\ tree_task.pc = "read_file"
    /\ \E content \in {"Ok", "Err"} :
        LET written == open_file_arm(content, manager, tree_task.task.path)
        IN  /\ IF written # None
               THEN /\ app_writes' = Append(app_writes,
                                            AppWrite(tree_task.n, "Global", "open_file"))
                    /\ focused_panel' = written[1].focused_panel
                    /\ panels' = written[1].panels
               ELSE UNCHANGED <<app_writes, focused_panel, panels>>
            /\ last' = [op |-> "read_file", content |-> content, n |-> tree_task.n,
                        path |-> tree_task.task.path,
                        item_index |-> tree_task.item_index, pre |-> manager,
                        writes |-> app_writes]
    /\ focused_item' = tree_task.item_index
    /\ tree_task' = [pc |-> "idle"]
    /\ UNCHANGED <<subscribers, guards, scheduled, panicked,
                   tree_channel, entries, items, tree_tasks,
                   viewVars, editVars, syncVars, keyVars, lspVars, hoverVars, mountVars>>

\* the listing of the scenario: a file, then a folder
ProjListing ==
    [read_dir |-> "Ok",
     list |-> <<[path |-> EntryPaths[2], file_type |-> "file"],
                [path |-> EntryPaths[1], file_type |-> "dir"]>>,
     end |-> "None"]

\* the explorer over a folder that reads as listing, beside one empty panel
InitTree(listing, state) ==
    /\ NewStore(NewManager.panels)
    /\ rope = <<>>
    /\ cursor = TextCursor(0, 0)
    /\ captured = EditorData(<<>>, <<0, 0>>)
    /\ click_channel = <<>>
    /\ click_pending = None
    /\ positions = None
    /\ id = None
    /\ cursor_channel = <<>>
    /\ keypress_channel = <<>>
    /\ highlight_signals = 0
    /\ sent = <<>>
    /\ applied = <<>>
    /\ scroll_offsets = <<0, 0>>
    /\ metrics_len = 1
    /\ keydowns = 0
    /\ hover_location = None
    /\ lsp_channel = <<>>
    /\ lsp_task = [pc |-> "idle"]
    /\ debouncer = None
    /\ cursor_coords = 0
    /\ pointer = None
    /\ trigger = None
    /\ indexed = {}
    /\ requests = <<>>
    /\ withheld = <<>>
    /\ mouseovers = 0
    /\ mounted = <<>>
    /\ spawned = [t \in Tasks |-> None]
    /\ did_opens = <<>>
    /\ mounts = 0
    /\ handles = [subscribers |-> {RootScope}, refs |-> <<>>]
    /\ listening = <<>>
    /\ editors = <<>>
    /\ tree_channel = <<>>
    /\ tree_task = [pc |-> "idle"]
    /\ focused_item = 0
    /\ app_writes = <<>>
    /\ entries = listing
    /\ items = state
    /\ tree_tasks = 0

InitExplorer == InitTree(ProjListing, Closed)

InitListing == \E listing \in Listings : InitTree(listing, Closed)

NextExplorer ==
    \/ ItemClick
    \/ TreeReceive
    \/ ReadFolderDone
    \/ ReadFileDone

NextListing ==
    \/ FolderClick
    \/ TreeReceive
    \/ ReadFolderDone

\* items of the explorer clicked, the coroutine working on their tasks
SpecExplorer == InitExplorer /\ [][NextExplorer]_vars

\* a folder opened over every listing a transport can answer
SpecListing == InitListing /\ [][NextListing]_vars

\* what read_folder_as_items answers for the folder dir
Children(dir, listing) == read_folder_as_items(read_dir(dir, listing)).value

\* the explorer over the folder /r that lists a folder and a file, in either
\* order: closed, opened, or opened down to one of the folders below it
InitFolders ==
    \E listing \in {l \in Listings :
                        /\ l.read_dir = "Ok" /\ l.end = "None" /\ Len(l.list) = 2
                        /\ \E i, j \in 1..2 :
                               /\ l.list[i] = [path |-> "/r/a", file_type |-> "dir"]
                               /\ l.list[j] = [path |-> "/r/b", file_type |-> "file"]} :
        LET root == Folder(RootPath, Some(Children(RootPath, listing)))
            a == set_folder_state(root, "/r/a", Some(Children("/r/a", listing)))
            s == set_folder_state(a, "/r/a/s", Some(Children("/r/a/s", listing)))
        IN  \E state \in {Closed, root.state, a.state, s.state} :
                InitTree(listing, state)

NextTree ==
    \/ OnClick
    \/ TreeReceive
    \/ ReadFolderDone
    \/ ReadFileDone

\* the items shown clicked, folders opening and closing below the root
SpecTree == InitFolders /\ [][NextTree]_vars

\* ------------------------------------------------------------- properties
\* the tab of a panel p of an EditorManager value m that has the key of tab
KeyIndices(m, p, tab) ==
    {k \in 1..Len(m.panels[p + 1].tabs) :
        get_data(m.panels[p + 1].tabs[k]).id = get_data(tab).id}

\* C1: push_tab of a tab whose identity key is already open in the target
\* panel leaves the panel's tabs as they were, with exactly one tab for the
\* key, and with focus = true makes that tab the panel's active tab and the
\* panel the focused panel.
C1_PushTabIdempotent ==
    (last.op = "push_tab" /\ KeyIndices(last.pre, last.panel, last.tab) # {}) =>
        /\ panels[last.panel + 1].tabs = last.pre.panels[last.panel + 1].tabs
        /\ Cardinality(KeyIndices(manager, last.panel, last.tab)) = 1
        /\ last.focus =>
            /\ focused_panel = last.panel
            /\ panels[last.panel + 1].active_tab # None
            /\ panels[last.panel + 1].active_tab[1] + 1
                   \in KeyIndices(manager, last.panel, last.tab)

\* a focusing push_tab found its key open behind another active tab, in a
\* panel that was not focused
C1_Witness ==
    /\ last.op = "push_tab"
    /\ last.focus
    /\ \E k \in KeyIndices(last.pre, last.panel, last.tab) :
          /\ last.pre.panels[last.panel + 1].active_tab # None
          /\ last.pre.panels[last.panel + 1].active_tab # Some(k - 1)
    /\ last.pre.focused_panel # last.panel

\* the tabs of the panel a close_editor call worked on, before the call
ClosedFrom == last.pre.panels[last.panel + 1]

\* C2: close_editor on the active tab removes the tab at the index, keeps
\* the order of the others, and makes the following tab active, else the
\* preceding tab, else none.
C2_CloseActiveReselects ==
    (last.op = "close_editor" /\ ClosedFrom.active_tab = Some(last.editor)) =>
        LET old == ClosedFrom.tabs
            now == panels[last.panel + 1]
            e == last.editor
        IN  /\ now.tabs = SubSeq(old, 1, e) \o SubSeq(old, e + 2, Len(old))
            /\ IF e + 1 < Len(old)
               THEN /\ now.active_tab # None
                    /\ now.tabs[now.active_tab[1] + 1] = old[e + 2]
               ELSE IF e > 0
               THEN /\ now.active_tab # None
                    /\ now.tabs[now.active_tab[1] + 1] = old[e]
               ELSE now.active_tab = None

\* the active tab in the middle of three was closed
C2_Witness ==
    /\ last.op = "close_editor"
    /\ ClosedFrom.active_tab = Some(last.editor)
    /\ last.editor = 1
    /\ Len(ClosedFrom.tabs) = 3

\* C3: close_editor on a tab that is not the active one keeps the same tab
\* active: an active index after the removed one goes down by one, an
\* active index before it stays.
C3_CloseOtherKeepsActive ==
    (/\ last.op = "close_editor"
     /\ ClosedFrom.active_tab # None
     /\ ClosedFrom.active_tab # Some(last.editor)) =>
        LET a == ClosedFrom.active_tab[1]
            now == panels[last.panel + 1]
        IN  /\ now.active_tab = Some(IF a > last.editor THEN a - 1 ELSE a)
            /\ now.tabs[now.active_tab[1] + 1] = ClosedFrom.tabs[a + 1]

\* a tab before the active one was closed
C3_Witness ==
    /\ last.op = "close_editor"
    /\ ClosedFrom.active_tab # None
    /\ ClosedFrom.active_tab[1] > last.editor

\* C4: there is always at least one panel, and close_panel with one panel
\* left changes nothing.
C4_PanelsNeverEmpty ==
    /\ Len(panels) >= 1
    /\ (last.op = "close_panel" /\ Len(last.pre.panels) = 1) => manager = last.pre

\* close_panel was called on the only panel, which holds a tab
C4_Witness ==
    /\ last.op = "close_panel"
    /\ Len(last.pre.panels) = 1
    /\ last.pre.panels[1].tabs # <<>>

\* C5: the active_tab of every panel, when present, is an index into the
\* panel's tabs.
C5_ActiveTabValid ==
    \A p \in 1..Len(panels) :
        panels[p].active_tab # None =>
            panels[p].active_tab[1] \in 0..(Len(panels[p].tabs) - 1)

\* the last tab of a panel was active and a tab of the panel was closed
C5_Witness ==
    /\ last.op = "close_editor"
    /\ ClosedFrom.active_tab = Some(Len(ClosedFrom.tabs) - 1)
    /\ panels[last.panel + 1].active_tab # None

\* C6: a panel that holds a tab has an active tab.
C6_ActiveTabPresent ==
    \A p \in 1..Len(panels) :
        panels[p].tabs # <<>> => panels[p].active_tab # None

\* C7: focused_panel is an index into panels.
C7_FocusedPanelValid == focused_panel < Len(panels)

\* the last panel was focused and a panel was closed
C7_Witness ==
    /\ last.op = "close_panel"
    /\ Len(last.pre.panels) > 1
    /\ last.pre.focused_panel = Len(last.pre.panels) - 1

\* C8: the drop of a guard obtained from global_write schedules every
\* registered observer, whatever its model.
C8_GlobalWriteNotifiesAll ==
    (last.op = "drop" /\ last.guard.via = "global_write") =>
        scheduled = DOMAIN subscribers

\* C9: the drop of a guard obtained from write by an observer registered
\* with model S schedules exactly the registered observers whose model is
\* S, the writer among them.
C9_ScopedWriteNotifiesScope ==
    (last.op = "drop" /\ last.guard.via = "write") =>
        /\ scheduled = {o \in DOMAIN subscribers :
                           subscribers[o] = subscribers[last.guard.scope]}
        /\ last.guard.scope \in scheduled

\* a tab-scoped writer dropped its guard while an observer of another tab
\* and the root observer were registered
C9_Witness ==
    /\ last.op = "drop"
    /\ last.guard.via = "write"
    /\ subscribers[last.guard.scope].tag = "Tab"
    /\ \E o \in DOMAIN subscribers :
          /\ subscribers[o].tag = "Tab"
          /\ subscribers[o] # subscribers[last.guard.scope]

\* C10: at most one guard is alive, and a write or global_write attempted
\* while a guard is alive panics and leaves the store and the live guard as
\* they were.
C10_SingleWriter ==
    /\ Len(guards) <= 1
    /\ (last.op \in {"write", "global_write"} /\ last.held # <<>>) =>
          /\ panicked
          /\ manager = last.pre
          /\ guards = last.held

\* a write was attempted under a live guard that had changed the store
C10_Witness ==
    /\ last.op = "write"
    /\ last.held # <<>>
    /\ panicked
    /\ manager # NewManager

\* ------------------------------------------------------ cursor placement
\* C11: the cursor after a handled response (col, row) is
\* (min(col, length of line row), row), and a response whose clamped value
\* is the cursor of the moment makes no write to the store.
C11_ClampedCommit ==
    (last.op = "cursor_response" /\ ~panicked /\ last.row < len_lines(rope)) =>
        LET len == line_chars_len(rope, last.row)
            target == <<IF last.col < len THEN last.col ELSE len, last.row>>
        IN  /\ as_tuple(cursor) = target
            /\ target = as_tuple(last.pre_cursor) => ~last.with_mut

\* C12: a handled response never crashes the handler and leaves the cursor
\* on a line of the buffer, at a column within that line.
C12_CursorInRange ==
    last.op = "cursor_response" =>
        /\ ~panicked
        /\ cursor.row < len_lines(rope)
        /\ cursor.col <= line_chars_len(rope, cursor.row)

\* C13: the handling of a response never empties the positions that a click
\* later than the one it answers has published.
C13_LatestClickWins ==
    (/\ last.op = "cursor_response"
     /\ ~panicked
     /\ last.pre_positions # None
     /\ \/ last.pre_positions[1] # last.col
        \/ click_pending = None /\ id # Some(last.row)) =>
        positions = last.pre_positions

\* C14: after a response has been handled, with the cursor changed or not,
\* the positions are empty and a layout pass has nothing to answer.
C14_SlotCleared ==
    (last.op = "cursor_response" /\ ~panicked) =>
        /\ positions = None
        /\ ~ENABLED LayoutPass

\* a response that left the cursor as it was has been handled while the
\* positions of its click were published
C14_Witness ==
    /\ last.op = "cursor_response"
    /\ ~panicked
    /\ ~last.with_mut
    /\ last.pre_positions = Some(last.col)

\* ---------------------------------------------------- keypress pipeline
\* the keys of a sequence of applied events
AppliedKeys == [k \in 1..Len(applied) |-> applied[k].key]

\* C15: the keys applied so far followed by the keys still in the channel
\* are the keys sent, in the order of the sends: every key is applied once,
\* in its turn, and none is lost.
C15_AppliedInOrder ==
    /\ ~panicked
    /\ AppliedKeys \o keypress_channel = sent

\* two keydowns with different keys have gone through the pipeline, the
\* first as several events
C15_Witness ==
    /\ keypress_channel = <<>>
    /\ Len(applied) > 2
    /\ applied[1].key # applied[Len(applied)].key

\* C16: the sends on highlight_trigger are as many as the applied events
\* classified TextChanged.
C16_SignalPerTextChange ==
    highlight_signals =
        Cardinality({k \in 1..Len(applied) : applied[k].event = "TextChanged"})

\* a text change and a cursor move have both been applied
C16_Witness ==
    /\ \E k \in 1..Len(applied) : applied[k].event = "TextChanged"
    /\ \E k \in 1..Len(applied) : applied[k].event = "CursorMoved"

\* C17: a keydown accepted by the focused editor sends 5 events for an
\* arrow up or down with Alt, 3 for an arrow up or down with Control and
\* without Alt, 1 for anything else, each with the data of the keydown.
C17_DispatchCount ==
    (last.op = "keydown" /\ last.accepted) =>
        LET arrow == last.e.key \in {"ArrowUp", "ArrowDown"}
            n == IF arrow /\ ALT \in last.e.modifiers THEN 5
                 ELSE IF arrow /\ CONTROL \in last.e.modifiers THEN 3
                 ELSE 1
        IN  /\ Len(last.events) = n
            /\ \A k \in 1..n : last.events[k] = EditableKeyDown(last.e)
            /\ Len(sent) >= n
            /\ \A k \in (Len(sent) - n + 1)..Len(sent) : sent[k] = last.e

\* an arrow with Control and without Alt was accepted
C17_Witness ==
    /\ last.op = "keydown"
    /\ last.accepted
    /\ last.e.key = "ArrowUp"
    /\ last.e.modifiers = {CONTROL}

SessionsOf(language_server) ==
    {n \in 1..Len(started) : started[n] = language_server}

\* C19: callers of get_or_insert_lsp that ask for the same language server
\* before its creation completes do not create two sessions: at most one
\* session is ever started for a language server, and every caller that has
\* returned holds the same bridge.
C19_SingleSessionPerKey ==
    /\ \A language_server \in LanguageServers :
          Cardinality(SessionsOf(language_server)) <= 1
    /\ \A t1 \in Tasks, t2 \in Tasks :
          (/\ tasks[t1].pc = "returned"
           /\ tasks[t2].pc = "returned"
           /\ tasks[t1].language_server = tasks[t2].language_server)
          => tasks[t1].server = tasks[t2].server

HoverProcessed == last.op = "lsp_action" /\ last.action.kind = "Hover"

\* when that step began the session of the tab's language was registered
\* and its indexed flag was true
WasReady ==
    /\ lsp_config.language_server \in DOMAIN last.language_servers
    /\ last.language_servers[lsp_config.language_server].indexed \in last.indexed

\* the pointer is over no text: outside the lines, or past the text of one
OffText ==
    IF pointer = None THEN TRUE
    ELSE pointer[1].x >= max_intrinsic_width(line_str(rope, pointer[1].line))

\* C21: a hover action processed while the session of the editor's language
\* is absent, or while its indexed flag is false, is dropped: no request is
\* sent to the language server and hover_location is not written.
C21_HoverDropped ==
    (HoverProcessed /\ ~WasReady)
    => /\ requests = last.requests
       /\ hover_location = last.hover_location
       /\ lsp_task.pc = "idle"

\* hovers have been dropped for both reasons, the last one just now
C21_Witness ==
    /\ HoverProcessed
    /\ ~WasReady
    /\ \E i \in 1..Len(withheld) : withheld[i].notice = "LSP: Not running."
    /\ \E i \in 1..Len(withheld) : withheld[i].notice = "LSP: Still indexing..."

\* C22: the indexed flag is read when the hover action is processed: with
\* the session registered and the flag true at that moment the request is
\* sent to the server, also when an earlier hover was dropped; a response
\* with a hover is stored as (requested line, result), a failed or empty
\* response leaves hover_location empty.
C22_HoverIssuedWhenIndexed ==
    /\ (HoverProcessed /\ WasReady)
       => /\ Len(requests) = Len(last.requests) + 1
          /\ requests[Len(requests)].line = last.action.line
          /\ requests[Len(requests)].character = last.action.character
          /\ lsp_task = [pc |-> "hover", line |-> last.action.line]
    /\ last.op = "hover_response"
       => hover_location =
             IF last.response.ok /\ last.response.res # None
             THEN Some(<<last.line, last.response.res[1]>>)
             ELSE None

\* the hover of a line that was dropped while the server was indexing has
\* been repeated and its result is stored
C22_Witness ==
    /\ last.op = "hover_response"
    /\ hover_location = Some(<<last.line, "doc">>)
    /\ \E i \in 1..Len(withheld) :
          /\ withheld[i].line = last.line
          /\ withheld[i].notice = "LSP: Still indexing..."

\* C23: a hover result for line L that arrives after the pointer has moved
\* to another line M is discarded: hover_location is empty afterwards.
C23_StaleHoverDiscarded ==
    (/\ last.op = "hover_response"
     /\ pointer # None
     /\ pointer[1].line # last.line)
    => hover_location = None

\* C24: once the pointer has left the text and the Clear sent for it has
\* been processed, hover_location is empty and stays empty until the next
\* mouseover on text: no hover scheduled or in flight before the leave
\* stores a result afterwards.
C24_ClearedAfterLeave ==
    (/\ OffText
     /\ \A i \in 1..Len(lsp_channel) : lsp_channel[i].kind # "Clear")
    => hover_location = None

\* C25: a Clear is applied whether or not the language server answers: with
\* a hover result stored and a Clear next in the channel, lsp_coroutine is
\* able to take the Clear.
C25_ClearNotBlocked ==
    (/\ hover_location # None
     /\ lsp_channel # <<>>
     /\ Head(lsp_channel).kind = "Clear")
    => ENABLED LspReceive

\* C26: when the debouncer runs its action, exactly one Hover action is
\* sent for the mouseovers it coalesced, and it carries the line and the
\* coordinates of the last mouseover that called the debouncer.
C26_DebouncedLastTrigger ==
    last.op = "debounced"
    => /\ trigger # None
       /\ lsp_channel =
             Append(last.lsp_channel,
                    Hover(trigger[1].line,
                          glyph_position(line_str(rope, trigger[1].line),
                                         trigger[1].x)))

\* C27: did_open is sent once per file: over any sequence of tab switches
\* and focus changes, no file uri is notified twice.
C27_DidOpenOncePerFile ==
    \A i \in 1..Len(did_opens), j \in 1..Len(did_opens) :
        did_opens[i] = did_opens[j] => i = j

\* C28: mounting and rendering the editor of a tab whose path has no file
\* uri is a recoverable error: the process does not panic and the panels
\* of the store are as they were.
C28_BadPathRecoverable ==
    (last.op = "mount" /\ last.file_uri = None)
    => /\ ~panicked
       /\ panels = last.pre.panels

\* the task the coroutine has just finished was an OpenFile whose read failed
ReadFailed == last.op = "read_file" /\ last.content = "Err"

\* the write guards the coroutine took while it worked on its n-th task
WritesOf(n) == {i \in 1..Len(app_writes) : app_writes[i].task = n}

\* C29 as stated: after a failed read of an OpenFile task no tab has been
\* created, panels and tabs are unchanged, the coroutine is ready for its
\* next task, and no write guard on the application state was taken for
\* the task.
C29_NoWriteForFailedOpen ==
    ReadFailed =>
        /\ manager = last.pre
        /\ tree_task.pc = "idle"
        /\ focused_item = last.item_index
        /\ WritesOf(last.n) = {}

\* C29 amended: after a failed read of an OpenFile task no tab has been
\* created, panels and tabs are unchanged, the failure itself takes no write
\* guard, the only guard the task may have taken being the one of the focus
\* switch to the explorer made before the read, and the coroutine goes on:
\* the item of the task is focused and a task waiting in the channel can be
\* taken.
C29_FailedOpenAbsorbed ==
    ReadFailed =>
        /\ manager = last.pre
        /\ app_writes = last.writes
        /\ \A i \in WritesOf(last.n) : app_writes[i].call = "set_focused_view"
        /\ tree_task.pc = "idle"
        /\ focused_item = last.item_index
        /\ (tree_channel # <<>> => ENABLED TreeReceive)

\* a read has failed on a task that had switched the focus to the explorer,
\* while a later task waits in the channel
C29_Witness ==
    /\ ReadFailed
    /\ WritesOf(last.n) # {}
    /\ tree_channel # <<>>
    /\ focused_item # 0

\* the position of the entry with the path path in the listing es
EntryIndex(es, path) == CHOOSE k \in 1..Len(es) : es[k].path = path

\* C30: in the items read_folder_as_items returns, every folder precedes
\* every file, each entry the transport handed out appears exactly once,
\* folders are Closed, and inside each of the two groups the items are in
\* the order in which the transport handed out their entries.
C30_FoldersThenFiles ==
    (last.op = "read_folder" /\ last.result.ok) =>
        LET its == last.result.value
            es == last.entries.list
        IN  /\ \A i, j \in 1..Len(its) :
                   (its[i].kind = "File" /\ its[j].kind = "Folder") => j < i
            /\ \A k \in 1..Len(es) :
                   Cardinality({i \in 1..Len(its) : its[i].path = es[k].path}) = 1
            /\ \A i \in 1..Len(its) : \E k \in 1..Len(es) : its[i].path = es[k].path
            /\ \A i \in 1..Len(its) : its[i].kind = "Folder" => its[i].state = Closed
            /\ \A i, j \in 1..Len(its) :
                   (i < j /\ its[i].kind = its[j].kind) =>
                       EntryIndex(es, its[i].path) < EntryIndex(es, its[j].path)

\* a listing of three entries that hands out a file between two folders
\* has been read
C30_Witness ==
    /\ last.op = "read_folder"
    /\ last.result.ok
    /\ Len(last.entries.list) = 3
    /\ last.entries.list[1].file_type = "dir"
    /\ last.entries.list[2].file_type = "file"
    /\ last.entries.list[3].file_type = "symlink"
    /\ items = Some(last.result.value)

\* the items shown for the root folder in the state state
FlatOf(state) == flat(Folder(RootPath, state), 0, RootPath)

\* the positions of the folder path among the items shown
ShownAt(shown, path) == {k \in 1..Len(shown) : shown[k].path = path}

\* the first position after k that is not below the item at k
Below(shown, k) ==
    Min({m \in (k + 1)..(Len(shown) + 1) :
            IF m > Len(shown) THEN TRUE ELSE shown[m].depth <= shown[k].depth})

\* the tree task just finished opened a folder that read without error
FolderOpened == last.op = "read_folder" /\ last.result.ok

\* the tree task just finished closed a folder
FolderClosed == last.op = "tree_task" /\ last.task.kind = "CloseFolder"

\* C31: an OpenFolder task on a closed folder of the tree shown puts the
\* freshly listed children, closed, below exactly that folder and marks it
\* opened; a CloseFolder task on a folder of the tree marks it closed and
\* takes away what was below it; every other item keeps its place, its
\* depth and its state; a task for a folder that is not in the tree, one
\* of its ancestors being closed, changes nothing; and opening a closed
\* folder, then closing it, gives back the tree as it was.
C31_TreeOverlay ==
    /\ FolderOpened =>
           LET pre == FlatOf(last.pre)
               at == ShownAt(pre, last.path)
               fresh == last.result.value
           IN  IF at = {}
               THEN items = last.pre
               ELSE LET k == Min(at)
                    IN  ~pre[k].is_opened =>
                            FlatOf(items) =
                                SubSeq(pre, 1, k - 1)
                                \o <<[pre[k] EXCEPT !.is_opened = TRUE]>>
                                \o [i \in 1..Len(fresh) |->
                                       [path |-> fresh[i].path,
                                        is_file |-> fresh[i].kind = "File",
                                        is_opened |-> FALSE,
                                        depth |-> pre[k].depth + 1,
                                        root_path |-> RootPath]]
                                \o SubSeq(pre, k + 1, Len(pre))
    /\ FolderClosed =>
           LET pre == FlatOf(last.pre)
               at == ShownAt(pre, last.task.path)
           IN  IF at = {}
               THEN items = last.pre
               ELSE LET k == Min(at)
                    IN  FlatOf(items) =
                            SubSeq(pre, 1, k - 1)
                            \o <<[pre[k] EXCEPT !.is_opened = FALSE]>>
                            \o SubSeq(pre, Below(pre, k), Len(pre))
    /\ LET root == Folder(RootPath, items)
           shown == FlatOf(items)
       IN  \A k \in 1..Len(shown) :
               (~shown[k].is_file /\ ~shown[k].is_opened) =>
                   LET path == shown[k].path
                       opened == set_folder_state(root, path,
                                                  Some(Children(path, entries)))
                   IN  /\ opened # root
                       /\ set_folder_state(opened, path, Closed) = root

\* the folder /r/a/s has been opened below /r/a while its sibling /r/a/sx
\* was open
C31_Witness ==
    /\ FolderOpened
    /\ last.path = "/r/a/s"
    /\ \E k \in ShownAt(FlatOf(last.pre), "/r/a/s") : ~FlatOf(last.pre)[k].is_opened
    /\ \E k \in ShownAt(FlatOf(last.pre), "/r/a/sx") : FlatOf(last.pre)[k].is_opened
    /\ \E k \in ShownAt(FlatOf(items), "/r/a/s/g") : FlatOf(items)[k].depth = 3

\* a FlatItem of the root folder
FlatItem(path, is_file, is_opened, depth) ==
    [path |-> path, is_file |-> is_file, is_opened |-> is_opened, depth |-> depth,
     root_path |-> RootPath]

\* the root folder, read as a folder and a file, has just been opened
RootOpened == FolderOpened /\ last.path = RootPath /\ last.pre = Closed

\* the folder listed in the root has just been opened, the root showing its
\* listing and nothing more before
SrcOpened ==
    /\ FolderOpened
    /\ last.path = "/r/a"
    /\ last.pre = Some(Children(RootPath, entries))

\* C32 as stated, with /r for /proj, /r/a for src and /r/b for Cargo.toml:
\* once the root is opened the items shown below it are the folder, closed,
\* then the file; once the task that opens the folder completes the folder
\* is shown opened and its children are shown with depth 1.
C32_ChildrenAtDepthOne ==
    LET shown == FlatOf(items)
    IN  /\ RootOpened =>
               /\ Len(shown) = 3
               /\ shown[2].path = "/r/a" /\ ~shown[2].is_file /\ ~shown[2].is_opened
               /\ shown[3].path = "/r/b" /\ shown[3].is_file
        /\ SrcOpened =>
               /\ \E k \in ShownAt(shown, "/r/a") : shown[k].is_opened
               /\ \A k \in 1..Len(shown) :
                      shown[k].path \in {"/r/a/s", "/r/a/sx", "/r/a/f"} =>
                          shown[k].depth = 1

\* C32 amended: once the root is opened the items shown are the root,
\* opened, with depth 0, then the folder, closed, and the file, both with
\* depth 1; once the task that opens the folder completes the folder is
\* shown opened and its children follow it with depth 2, folders first,
\* before the file of the root.
C32_Scenario ==
    /\ RootOpened =>
           FlatOf(items) = <<FlatItem("/r", FALSE, TRUE, 0),
                             FlatItem("/r/a", FALSE, FALSE, 1),
                             FlatItem("/r/b", TRUE, FALSE, 1)>>
    /\ SrcOpened =>
           FlatOf(items) = <<FlatItem("/r", FALSE, TRUE, 0),
                             FlatItem("/r/a", FALSE, TRUE, 1),
                             FlatItem("/r/a/s", FALSE, FALSE, 2),
                             FlatItem("/r/a/sx", FALSE, FALSE, 2),
                             FlatItem("/r/a/f", TRUE, FALSE, 2),
                             FlatItem("/r/b", TRUE, FALSE, 1)>>

\* the root was opened by the first task and the folder by the second
C32_Witness ==
    /\ SrcOpened
    /\ tree_tasks = 2
    /\ Len(app_writes) = 3
    /\ app_writes[2] = AppWrite(1, "FileExplorer", "set_folder_state")
    /\ app_writes[3] = AppWrite(2, "FileExplorer", "set_folder_state")

\* the registry of the store the observer scope uses holds scope
Registered(scope) ==
    IF scope \in Observers
    THEN IF handles.refs[scope].via = "hooks"
         THEN scope \in DOMAIN subscribers
         ELSE scope \in handles.subscribers
    ELSE scope \in DOMAIN subscribers \/ scope \in handles.subscribers

\* C33: the registry holds exactly the live observers: a mounted observer
\* is registered, whatever clones of its handle have been dropped, the
\* entry of an observer that has been torn down is gone, and a guard that
\* is released schedules mounted observers only.
C33_RegistryHoldsLiveObservers ==
    /\ \A scope \in Scopes \ {RootScope} : Registered(scope) <=> scope \in Observers
    /\ last.op = "notify" => scheduled \subseteq Observers \cup {RootScope}

\* C34: close_panel on a store of more than one panel, for a panel that is
\* not the focused one, leaves the focus on the panel that had it: the
\* focused index is one less when the closed panel was below it and the
\* same when it was above, and the panel at that index is the panel that
\* was focused.
C34_ClosePanelKeepsFocus ==
    (/\ last.op = "close_panel"
     /\ Len(last.pre.panels) > 1
     /\ last.panel # last.pre.focused_panel) =>
        /\ focused_panel = IF last.panel < last.pre.focused_panel
                           THEN last.pre.focused_panel - 1
                           ELSE last.pre.focused_panel
        /\ panels[focused_panel + 1] = last.pre.panels[last.pre.focused_panel + 1]

\* C38: split appends exactly one empty panel at the end of the panels,
\* leaves every panel that existed and its tabs as they were, and focuses
\* the new panel, the last one.
C38_SplitFocusesNewPanel ==
    last.op = "split_panel" =>
        /\ Len(panels) = Len(last.pre.panels) + 1
        /\ SubSeq(panels, 1, Len(last.pre.panels)) = last.pre.panels
        /\ panels[Len(panels)] = NewPanel
        /\ focused_panel = Len(panels) - 1

\* the identity keys of the tabs of the panel p
TabKeys(p) == [i \in 1..Len(p.tabs) |-> get_data(p.tabs[i]).id]

\* C40: whatever push_tab and close_editor calls have been made, no two
\* tabs of one panel have the same identity key.
C40_KeysDistinctPerPanel ==
    \A panel \in PanelIndices :
        LET keys == TabKeys(panels[panel + 1])
        IN  \A i, j \in 1..Len(keys) : i # j => keys[i] # keys[j]

\* a key is open in two panels, one of them holding a second tab, after a
\* push_tab of a key its panel already holds
C40_Witness ==
    /\ last.op = "push_tab"
    /\ opened_tab(last.pre, last.tab, last.panel) # None
    /\ Len(panels) = 2
    /\ \E i \in 1..Len(panels[1].tabs), j \in 1..Len(panels[2].tabs) :
           TabKeys(panels[1])[i] = TabKeys(panels[2])[j]
    /\ \E panel \in PanelIndices : Len(panels[panel + 1].tabs) = 2

\* C35: no guard on the store is held across a suspension point: whenever
\* a call of get_or_insert_lsp is suspended in create_lsp, a write() or
\* global_write() of another task or of an event handler is granted its
\* borrow.
C35_NoGuardAcrossAwait ==
    (\E t \in Tasks : tasks[t].pc = "create_lsp") => borrow_mut(guards)

\* C36: a key delivered on the channel of the surface a panel displays is
\* applied to the tab that surface displays, whatever tabs have been closed
\* since it was mounted: the listener finds a tab at its indices, that tab
\* is the one the surface was mounted for, and the editor of no other tab
\* changes.
C36_EventsReachShownTab ==
    (/\ last.op = "keypress"
     /\ last.shown = RenderedKey(panels[last.panel + 1])) =>
        /\ last.tab = last.shown
        /\ \A key \in DOMAIN editors[last.panel + 1] :
               Some(key) # last.shown =>
                   editors[last.panel + 1][key] = last.pre[last.panel + 1][key]

\* the three conditions under which the CodeEditorTab of the given props
\* takes a keydown
TakesKeys(panel, editor) ==
    /\ focused_panel = panel
    /\ panels[panel + 1].active_tab = Some(editor)
    /\ focused_view = "CodeEditor"

\* C39: a keydown on an editor tab whose panel is not the focused panel,
\* whose tab is not the active tab of its panel, or while the focused view
\* is not CodeEditor, dispatches no key event and leaves the buffer, the
\* cursor and the scroll offset of the editor as they were; when it is
\* taken, no editor tab of other props would take it.
C39_OnlyFocusedEditorTakesKeys ==
    [][AnyKeyDown =>
          IF TakesKeys(panel_index, editor_index)
          THEN \A panel \in PanelIndices :
                   \A editor \in TabIndices(panel) :
                       TakesKeys(panel, editor) =>
                           (panel = panel_index /\ editor = editor_index)
          ELSE UNCHANGED <<keypress_channel, sent, rope, cursor, scroll_offsets>>]_vars

\* a keydown was not taken in the focused panel, in the view CodeEditor,
\* because another tab was active, after an earlier keydown was taken
C39_Witness ==
    /\ last.op = "keydown"
    /\ ~last.accepted
    /\ focused_panel = panel_index
    /\ focused_view = "CodeEditor"
    /\ panels[panel_index + 1].active_tab = Some(1)
    /\ sent # <<>>

====
